---- MODULE Spec2Model ----
(***************************************************************************)
(* Model of PortfolioAnalyzer (src/src/module_b/analytics.py): the         *)
(* per-sector quadratic curve fit, the residual / Z-Score pass and the     *)
(* candidate screeners, over a bounded family of portfolio tables.         *)
(*                                                                         *)
(* Numbers.  Every float is an exact rational [num, den] in lowest terms;  *)
(* den = 0 is NaN.  Durations are in years, Yield, FTP and Net_Carry in    *)
(* percent, Nominal_USD in millions.  A residual standard deviation and a  *)
(* Z-Score are square roots of rationals and are kept as [sgn, sq], which  *)
(* stands for sgn * sqrt(sq).  Floating-point rounding is not modelled.    *)
(***************************************************************************)
EXTENDS Integers, Sequences, FiniteSets, TLC

VARIABLES
    loader,                 \* the DataLoader object (None where there is none)
    input_df,               \* the caller's DataFrame handed to __init__
    df,                     \* self.df, the analyzer's own copy
    model_type,             \* self.model_type
    _regression_results,    \* self._regression_results: sector -> RegressionResult
    _nelson_siegel_results, \* self._nelson_siegel_results
    _is_fitted,             \* self._is_fitted
    ret                     \* the last call: its name, arguments and outcome

vars == <<loader, input_df, df, model_type, _regression_results,
          _nelson_siegel_results, _is_fitted, ret>>

(***************************************************************************)
(* Bounds of the model and constants of the program.                       *)
(***************************************************************************)
MaxMinSamples == 6
MaxSectorRows == 6
MIN_SAMPLES_FOR_REGRESSION == 5
LIQUIDITY_THRESHOLD == 10
LIQUIDITY_HIGH == 5
LIQUIDITY_LOW == 3

\* an Optional argument: None, or Some(v)
None == <<>>
Some(v) == <<v>>

(***************************************************************************)
(* Exact arithmetic.                                                       *)
(***************************************************************************)
Abs(n) == IF n < 0 THEN -n ELSE n
Sign(n) == IF n < 0 THEN -1 ELSE IF n > 0 THEN 1 ELSE 0

RECURSIVE GCD(_, _)
GCD(a, b) == IF b = 0 THEN a ELSE GCD(b, a % b)

RNaN == [num |-> 0, den |-> 0]
RIsNaN(r) == r.den = 0
\* n / d in lowest terms with a positive denominator; x / 0 is NaN
Rat(n, d) ==
    IF d = 0 THEN RNaN
    ELSE LET g == GCD(Abs(n), Abs(d))
         IN  [num |-> Sign(d) * (n \div g), den |-> Abs(d) \div g]
RInt(n) == [num |-> n, den |-> 1]
RAdd(p, q) ==
    IF RIsNaN(p) \/ RIsNaN(q) THEN RNaN
    ELSE Rat(p.num * q.den + q.num * p.den, p.den * q.den)
RNeg(p) == [num |-> -p.num, den |-> p.den]
RSub(p, q) == RAdd(p, RNeg(q))
RMul(p, q) ==
    IF RIsNaN(p) \/ RIsNaN(q) THEN RNaN
    ELSE Rat(p.num * q.num, p.den * q.den)
RDiv(p, q) ==
    IF RIsNaN(p) \/ RIsNaN(q) THEN RNaN
    ELSE Rat(p.num * q.den, p.den * q.num)
\* comparisons with NaN are false, as in IEEE arithmetic
RLess(p, q) == ~RIsNaN(p) /\ ~RIsNaN(q) /\ p.num * q.den < q.num * p.den

RECURSIVE RSumTo(_, _)
RSumTo(v, k) == IF k = 0 THEN RInt(0) ELSE RAdd(RSumTo(v, k - 1), v[k])
RSum(v) == RSumTo(v, Len(v))

NaN == RNaN
isna(v) == RIsNaN(v)
notna(v) == ~RIsNaN(v)

\* sgn * sqrt(sq): the values that come out of a square root
SNaN == [sgn |-> 0, sq |-> RNaN]
SIsNaN(z) == RIsNaN(z.sq)
SqrtOf(r) == IF RIsNaN(r) THEN SNaN ELSE [sgn |-> Sign(r.num), sq |-> r]
SOfRat(r) == IF RIsNaN(r) THEN SNaN ELSE [sgn |-> Sign(r.num), sq |-> RMul(r, r)]
\* r / s for a rational r and a root s > 0
RDivS(r, s) ==
    IF RIsNaN(r) \/ SIsNaN(s) THEN SNaN
    ELSE [sgn |-> Sign(r.num), sq |-> RDiv(RMul(r, r), s.sq)]
SLess(a, b) ==
    /\ ~SIsNaN(a) /\ ~SIsNaN(b)
    /\ \/ a.sgn < b.sgn
       \/ a.sgn = 1 /\ b.sgn = 1 /\ RLess(a.sq, b.sq)
       \/ a.sgn = -1 /\ b.sgn = -1 /\ RLess(b.sq, a.sq)

(***************************************************************************)
(* The portfolio tables.  A table is a sequence of rows; a row is a record *)
(* of the input columns.  The tables are the output of the loader's        *)
(* enrichment (Net_Carry = Yield - FTP, Is_Tradeable = Accounting is not   *)
(* HTM, Liquidity_Proxy from Nominal_USD), except that a Duration or a     *)
(* Yield may be missing, which the analyzer filters for itself.            *)
(*                                                                         *)
(* A table has a block of "Corps" rows followed by a block of "MBS" rows.  *)
(* Durations cycle through 0, 1, 2 years, so every sample of               *)
(* MIN_SAMPLES_FOR_REGRESSION rows has three distinct durations and the    *)
(* least-squares quadratic is unique.  Yields lie on a curve of the chosen *)
(* shape, plus a noise pattern per sector.  Every number of a table is a   *)
(* whole number.                                                           *)
(***************************************************************************)
InputCols == {"Ticker", "Sector_L1", "Accounting", "Nominal_USD", "Duration",
              "Yield", "Net_Carry", "Is_Tradeable", "Liquidity_Proxy"}
DerivedCols == {"Model_Yield", "Residual", "Z_Score"}

\* a variant fixes the shape of the curve the yields lie on, the noise of
\* each sector around it and the phase of the funding / accounting / size
\* cycles
Variants ==
    { [shape |-> "flat", noiseCorps |-> "none", noiseMBS |-> "none", seed |-> 0],
      [shape |-> "linear", noiseCorps |-> "none", noiseMBS |-> "one", seed |-> 1],
      [shape |-> "quadratic", noiseCorps |-> "two", noiseMBS |-> "one", seed |-> 2],
      [shape |-> "linear", noiseCorps |-> "two", noiseMBS |-> "two", seed |-> 3] }
Nulls == {"none", "duration", "yield", "yield_last"}

BaseYield(shape, d) ==
    CASE shape = "flat" -> 3
      [] shape = "linear" -> 2 + d
      [] shape = "quadratic" -> 1 + d * d
      [] shape = "distressed" -> 60

\* the deviation from the curve of the row at position pos of its block
NoiseAt(noise, pos) ==
    CASE noise = "none" -> 0
      [] noise = "one" -> IF pos = 2 THEN 1 ELSE 0
      [] noise = "two" -> IF pos = 2 THEN 2 ELSE IF pos = 3 THEN -1 ELSE 0

AccountingCycle == <<"AFS", "HTM", "Fair Value", "Unknown">>
NominalCycle == <<5, 10, 20, 50>>

MakeRow(i, nCorps, v, nulls, n) ==
    LET sector == IF i <= nCorps THEN "Corps" ELSE "MBS"
        pos == IF i <= nCorps THEN i ELSE i - nCorps
        d == (i - 1) % 3
        y == BaseYield(v.shape, d)
             + NoiseAt(IF i <= nCorps THEN v.noiseCorps ELSE v.noiseMBS, pos)
        ftp == 2 * ((i + v.seed) % 3) + 1
        accounting == AccountingCycle[((i + 2 * v.seed) % 4) + 1]
        nominal == NominalCycle[((i * (v.seed + 1)) % 4) + 1]
        Duration == IF nulls = "duration" /\ i = 1 THEN NaN ELSE RInt(d)
        Yield == IF \/ nulls = "yield" /\ i = 1
                    \/ nulls = "yield_last" /\ i = n
                 THEN NaN ELSE RInt(y)
    IN  [Ticker |-> i,
         Sector_L1 |-> sector,
         Accounting |-> accounting,
         Nominal_USD |-> RInt(nominal),
         Duration |-> Duration,
         Yield |-> Yield,
         Net_Carry |-> RSub(Yield, RInt(ftp)),
         Is_Tradeable |-> accounting # "HTM",
         Liquidity_Proxy |-> IF nominal > LIQUIDITY_THRESHOLD
                             THEN LIQUIDITY_HIGH ELSE LIQUIDITY_LOW]

Tables ==
    { [i \in 1..(nCorps + MIN_SAMPLES_FOR_REGRESSION) |->
          MakeRow(i, nCorps, v, nulls, nCorps + MIN_SAMPLES_FOR_REGRESSION)] :
        nCorps \in (MIN_SAMPLES_FOR_REGRESSION - 1)..MaxSectorRows,
        v \in Variants, nulls \in Nulls }

(***************************************************************************)
(* DataFrame helpers.                                                      *)
(***************************************************************************)
\* df[df["Sector_L1"] == sector]
RowsOfSector(d, sector) == SelectSeq(d, LAMBDA r : r.Sector_L1 = sector)

\* df["Sector_L1"].unique(): the sectors in order of first appearance
RECURSIVE unique(_)
unique(d) ==
    IF d = <<>> THEN <<>>
    ELSE LET rest == unique(SubSeq(d, 1, Len(d) - 1))
             s == d[Len(d)].Sector_L1
         IN  IF \E k \in 1..Len(rest) : rest[k] = s THEN rest ELSE Append(rest, s)

\* df[col].values, as an explicit tuple
Column(d, col) == [k \in 1..Len(d) |-> d[k][col]] \o <<>>

\* the input columns of a table, without the derived ones
InputView(d) == [k \in 1..Len(d) |-> [c \in InputCols |-> d[k][c]]]

(***************************************************************************)
(* numpy on sequences of rationals.                                        *)
(***************************************************************************)
\* the sequence v as an explicit tuple: TLC then computes each element once
Array(v) == v \o <<>>

np_sum(v) == RSum(v)
np_mean(v) == RDiv(RSum(v), RInt(Len(v)))
RSquare(r) == RMul(r, r)
SqDev(v, c) == Array([k \in 1..Len(v) |-> RSquare(RSub(v[k], c))])
\* np.std: the population standard deviation (ddof = 0)
np_std(v) == SqrtOf(np_mean(SqDev(v, np_mean(v))))

\* x.min() and x.max()
np_min(v) == CHOOSE m \in {v[k] : k \in 1..Len(v)} :
                 \A k \in 1..Len(v) : ~RLess(v[k], m)
np_max(v) == CHOOSE m \in {v[k] : k \in 1..Len(v)} :
                 \A k \in 1..Len(v) : ~RLess(m, v[k])

RECURSIVE ISumTo(_, _)
ISumTo(v, k) == IF k = 0 THEN 0 ELSE ISumTo(v, k - 1) + v[k]
ISum(v) == ISumTo(v, Len(v))

IPow(x, k) == IF k = 0 THEN 1 ELSE IF k = 1 THEN x ELSE IF k = 2 THEN x * x
              ELSE IF k = 3 THEN x * x * x ELSE x * x * x * x

Det3(m) ==
      m[1][1] * (m[2][2] * m[3][3] - m[2][3] * m[3][2])
    - m[1][2] * (m[2][1] * m[3][3] - m[2][3] * m[3][1])
    + m[1][3] * (m[2][1] * m[3][2] - m[2][2] * m[3][1])

\* np.polyfit(x, y, deg=2): the least-squares quadratic, from the normal
\* equations by Cramer's rule; <<a, b, c>>, highest power first.  x and y
\* hold whole numbers, so the sums and determinants are integers.  The
\* samples of the model have three distinct abscissae, so the solution is
\* unique and polyfit does not raise.
np_polyfit2(x, y) ==
    LET n == Len(x)
        \* S[k + 1] = sum of x^k, T[k + 1] = sum of x^k * y
        S == Array([k \in 1..5 |-> ISum(Array([i \in 1..n |-> IPow(x[i].num, k - 1)]))])
        T == Array([k \in 1..3 |->
                      ISum(Array([i \in 1..n |-> IPow(x[i].num, k - 1) * y[i].num]))])
        M == << <<S[5], S[4], S[3]>>,
                <<S[4], S[3], S[2]>>,
                <<S[3], S[2], S[1]>> >>
        rhs == <<T[3], T[2], T[1]>>
        D == Det3(M)
        Col(j) == Array([r \in 1..3 |->
                           Array([c \in 1..3 |-> IF c = j THEN rhs[r] ELSE M[r][c]])])
    IN  Array([j \in 1..3 |-> Rat(Det3(Col(j)), D)])

\* np.polyval(coeffs, x) and RegressionResult.predict for one abscissa
polyval(coeffs, x) ==
    RAdd(RAdd(RMul(coeffs[1], RMul(x, x)), RMul(coeffs[2], x)), coeffs[3])

(***************************************************************************)
(* PortfolioAnalyzer._fit_single_curve: None, or Some(RegressionResult).   *)
(***************************************************************************)
\* sector_df[sector_df["Duration"].notna() & sector_df["Yield"].notna()]
\* as a bug would have it: sector_df.dropna(), which also drops the rows whose
\* derived columns are NaN once the table has been scored
CleanRows_dropna(sector_df) ==
    SelectSeq(sector_df,
              LAMBDA r : /\ notna(r.Duration) /\ notna(r.Yield) /\ notna(r.Net_Carry)
                         /\ "Z_Score" \in DOMAIN r =>
                                /\ notna(r.Model_Yield) /\ notna(r.Residual)
                                /\ ~SIsNaN(r.Z_Score))

CleanRows(sector_df) ==
    SelectSeq(sector_df, LAMBDA r : notna(r.Duration) /\ notna(r.Yield))

_fit_single_curve(sector, sector_df) ==
    LET clean_df == CleanRows(sector_df)
    IN  IF Len(clean_df) < MIN_SAMPLES_FOR_REGRESSION THEN None
        ELSE
        LET x == Column(clean_df, "Duration")
            y == Column(clean_df, "Yield")
            coeffs == np_polyfit2(x, y)
            y_pred == Array([k \in 1..Len(x) |-> polyval(coeffs, x[k])])
            residuals == Array([k \in 1..Len(x) |-> RSub(y[k], y_pred[k])])
            ss_res == np_sum(Array([k \in 1..Len(x) |-> RSquare(residuals[k])]))
            ss_tot == np_sum(SqDev(y, np_mean(y)))
            r_squared == IF RLess(RInt(0), ss_tot)
                         THEN RSub(RInt(1), RDiv(ss_res, ss_tot))
                         ELSE RInt(0)
        IN  Some([sector |-> sector,
                  coefficients |-> coeffs,
                  r_squared |-> r_squared,
                  sample_count |-> Len(clean_df),
                  duration_range |-> <<np_min(x), np_max(x)>>,
                  residual_std |-> np_std(residuals)])

\* nelson_siegel(tau, beta_0, beta_1, beta_2, lambda_) for one maturity:
\* beta_0 + beta_1 * factor_1 + beta_2 * factor_2.  The two loadings are
\* exponentials of tau / lambda_, finite since tau is clipped to 1e-6 and
\* lambda_ > 0; the model has the curves with beta_1 = beta_2 = 0 only, whose
\* value is beta_0 at every maturity (NaN at a NaN maturity).
nelson_siegel(tau, beta_0, beta_1, beta_2, lambda_) ==
    CASE isna(tau) -> NaN
      [] notna(tau) /\ beta_1 = RInt(0) /\ beta_2 = RInt(0) -> beta_0

\* result.predict(duration): RegressionResult.predict or
\* NelsonSiegelResult.predict, by the class of the result
predict(result, duration) ==
    IF "coefficients" \in DOMAIN result
    THEN polyval(result.coefficients, duration)
    ELSE nelson_siegel(duration, result.beta_0, result.beta_1, result.beta_2,
                       result.lambda_)

(***************************************************************************)
(* The loop of fit_sector_curves over the sectors, from the dict `acc`.    *)
(***************************************************************************)
\* as a bug would have it: the rows are counted against the default, not
\* against the argument
TooFewRows_default(sector_df, min_samples) ==
    Len(sector_df) < MIN_SAMPLES_FOR_REGRESSION

\* len(sector_df) < min_samples
TooFewRows(sector_df, min_samples) == Len(sector_df) < min_samples

RECURSIVE FitLoop(_, _, _, _)
FitLoop(sectors, d, min_samples, acc) ==
    IF sectors = <<>> THEN acc
    ELSE
    LET sector == Head(sectors)
        sector_df == RowsOfSector(d, sector)
        result == _fit_single_curve(sector, sector_df)
        next == IF TooFewRows(sector_df, min_samples) THEN acc
                ELSE IF result # None THEN (sector :> result[1]) @@ acc
                ELSE acc
    IN  FitLoop(Tail(sectors), d, min_samples, next)

EmptyDict == <<>>

(***************************************************************************)
(* The fit under an environment.  env.raises holds the sectors whose       *)
(* numerical routine raises (np.polyfit: LinAlgError when the SVD does not *)
(* converge; curve_fit: RuntimeError when maxfev is exhausted);            *)
(* env.mean_err is the rounding error of np.mean(y) in the R-squared       *)
(* lines, 0 when the float mean is exact.  Both handlers catch Exception   *)
(* and return None.                                                        *)
(***************************************************************************)
\* np.mean(y) as the float computation returns it
FloatMean(y, env) == RAdd(np_mean(y), env.mean_err)

\* r_squared = 1 - (ss_res / ss_tot) if ss_tot > 0 else 0
RSquaredOf(ss_res, ss_tot) ==
    IF RLess(RInt(0), ss_tot) THEN RSub(RInt(1), RDiv(ss_res, ss_tot))
    ELSE RInt(0)

\* the numerical routine of this sector raises, and the handler is entered
Raises(sector, env) == sector \in env.raises

_fit_single_curve_in(env, sector, sector_df) ==
    LET clean_df == CleanRows(sector_df)
    IN  IF Len(clean_df) < MIN_SAMPLES_FOR_REGRESSION THEN None
        ELSE IF Raises(sector, env) THEN None
        ELSE
        LET x == Column(clean_df, "Duration")
            y == Column(clean_df, "Yield")
            coeffs == np_polyfit2(x, y)
            y_pred == Array([k \in 1..Len(x) |-> polyval(coeffs, x[k])])
            residuals == Array([k \in 1..Len(x) |-> RSub(y[k], y_pred[k])])
            ss_res == np_sum(Array([k \in 1..Len(x) |-> RSquare(residuals[k])]))
            ss_tot == np_sum(SqDev(y, FloatMean(y, env)))
        IN  Some([sector |-> sector,
                  coefficients |-> coeffs,
                  r_squared |-> RSquaredOf(ss_res, ss_tot),
                  sample_count |-> Len(clean_df),
                  duration_range |-> <<np_min(x), np_max(x)>>,
                  residual_std |-> np_std(residuals)])

\* the bounds of curve_fit, yields in percent: 0.5 is 50 percent
NS_BETA_BOUND == 50
NS_LAMBDA_MAX == 50
NS_LAMBDA_MIN == Rat(1, 10)

\* y[np.argmin(x)]: the yield at the first smallest duration
YieldAtArgmin(x, y) ==
    y[CHOOSE i \in 1..Len(x) :
          /\ x[i] = np_min(x)
          /\ \A j \in 1..(i - 1) : x[j] # np_min(x)]

RMax(p, q) == IF RLess(p, q) THEN q ELSE p

\* p0 = [y_mean, y_first - y_mean, 0.01, max(np.mean(x), 1.0)]
InitialGuess(x, y) ==
    <<np_mean(y), RSub(YieldAtArgmin(x, y), np_mean(y)), RInt(1),
      RMax(np_mean(x), RInt(1))>>

\* least_squares rejects a start outside the bounds: ValueError
Infeasible(p0) ==
    \/ \E i \in 1..3 : \/ RLess(p0[i], RInt(-NS_BETA_BOUND))
                       \/ RLess(RInt(NS_BETA_BOUND), p0[i])
    \/ RLess(p0[4], NS_LAMBDA_MIN)
    \/ RLess(RInt(NS_LAMBDA_MAX), p0[4])

\* the samples of the model fitted with Nelson-Siegel have one yield c at
\* every duration; the least-squares optimum is then the level curve
\* beta_0 = c, beta_1 = beta_2 = 0, whatever lambda_, which stays as guessed
FlatSample(y) == \A i \in 1..Len(y) : y[i] = y[1]

curve_fit(x, y, p0) ==
    CASE FlatSample(y) -> <<y[1], RInt(0), RInt(0), p0[4]>>

_fit_nelson_siegel_curve_in(env, sector, sector_df) ==
    LET clean_df == CleanRows(sector_df)
    IN  IF Len(clean_df) < MIN_SAMPLES_FOR_REGRESSION THEN None
        ELSE
        LET x == Column(clean_df, "Duration")
            y == Column(clean_df, "Yield")
            p0 == InitialGuess(x, y)
        IN  IF Infeasible(p0) \/ Raises(sector, env) THEN None
            ELSE
            LET params == curve_fit(x, y, p0)
                y_pred == Array([k \in 1..Len(x) |->
                              nelson_siegel(x[k], params[1], params[2],
                                            params[3], params[4])])
                residuals == Array([k \in 1..Len(x) |-> RSub(y[k], y_pred[k])])
                ss_res == np_sum(Array([k \in 1..Len(x) |-> RSquare(residuals[k])]))
                ss_tot == np_sum(SqDev(y, FloatMean(y, env)))
            IN  Some([sector |-> sector,
                      beta_0 |-> params[1],
                      beta_1 |-> params[2],
                      beta_2 |-> params[3],
                      lambda_ |-> params[4],
                      r_squared |-> RSquaredOf(ss_res, ss_tot),
                      sample_count |-> Len(clean_df),
                      duration_range |-> <<np_min(x), np_max(x)>>,
                      residual_std |-> np_std(residuals)])

\* the loop of fit_sector_curves for either model; acc.reg and acc.ns are
\* the two dicts
RECURSIVE FitLoopIn(_, _, _, _, _, _)
FitLoopIn(env, mtype, sectors, d, min_samples, acc) ==
    IF sectors = <<>> THEN acc
    ELSE
    LET sector == Head(sectors)
        sector_df == RowsOfSector(d, sector)
        next ==
            IF TooFewRows(sector_df, min_samples) THEN acc
            ELSE IF mtype = "nelson_siegel"
            THEN LET result == _fit_nelson_siegel_curve_in(env, sector, sector_df)
                 IN  IF result # None
                     THEN [acc EXCEPT !.ns = (sector :> result[1]) @@ acc.ns]
                     ELSE acc
            ELSE LET result == _fit_single_curve_in(env, sector, sector_df)
                 IN  IF result # None
                     THEN [acc EXCEPT !.reg = (sector :> result[1]) @@ acc.reg]
                     ELSE acc
    IN  FitLoopIn(env, mtype, Tail(sectors), d, min_samples, next)


(***************************************************************************)
(* PortfolioAnalyzer._calculate_z_scores.                                  *)
(***************************************************************************)
\* as a bug would have it: the derived columns are created once and keep the
\* values of the previous fit
ResetDerived_once(d) ==
    [k \in 1..Len(d) |->
        d[k] @@ [Model_Yield |-> NaN, Residual |-> NaN, Z_Score |-> SNaN]]

\* the three derived columns set to NaN in every row
ResetDerived(d) ==
    [k \in 1..Len(d) |->
        [Model_Yield |-> NaN, Residual |-> NaN, Z_Score |-> SNaN] @@ d[k]]

\* as a bug would have it: a sector whose residual_std is 0 gets Z-Score 0
ScoreSector_zero(d, sector, result) ==
    [k \in 1..Len(d) |->
        IF d[k].Sector_L1 # sector THEN d[k]
        ELSE LET model_yield == predict(result, d[k].Duration)
                 residual == RSub(d[k].Yield, model_yield)
             IN  [Model_Yield |-> model_yield, Residual |-> residual,
                  Z_Score |-> IF result.residual_std.sgn > 0
                              THEN RDivS(residual, result.residual_std)
                              ELSE SOfRat(RInt(0))] @@ d[k]]

\* one iteration of the loop over results.items()
ScoreSector(d, sector, result) ==
    [k \in 1..Len(d) |->
        IF d[k].Sector_L1 # sector THEN d[k]
        ELSE LET model_yield == predict(result, d[k].Duration)
                 residual == RSub(d[k].Yield, model_yield)
             IN  IF result.residual_std.sgn > 0
                 THEN [Model_Yield |-> model_yield, Residual |-> residual,
                       Z_Score |-> RDivS(residual, result.residual_std)] @@ d[k]
                 ELSE [Model_Yield |-> model_yield, Residual |-> residual] @@ d[k]]

RECURSIVE ScoreLoop(_, _, _)
ScoreLoop(d, todo, results) ==
    IF todo = {} THEN d
    ELSE LET sector == CHOOSE s \in todo : TRUE
         IN  ScoreLoop(ScoreSector(d, sector, results[sector]),
                       todo \ {sector}, results)

\* as a bug would have it: the scored table comes back with the rows the
\* curves scored first and the unscored rows after them
_calculate_z_scores_reordered(d, results) ==
    LET scored == ScoreLoop(ResetDerived(d), DOMAIN results, results)
    IN  SelectSeq(scored, LAMBDA r : notna(r.Model_Yield))
        \o SelectSeq(scored, LAMBDA r : isna(r.Model_Yield))

_calculate_z_scores(d, results) ==
    ScoreLoop(ResetDerived(d), DOMAIN results, results)

(***************************************************************************)
(* DataFrame.sort_values on one column, followed by reset_index.  The sort *)
(* is numpy's quicksort, which is an insertion sort, hence stable, on the  *)
(* short arrays of the model; a descending sort keeps ties in their        *)
(* original order too.  Rows whose key is NaN go last.                     *)
(***************************************************************************)
KeyIsNaN(r, col) == IF col = "Z_Score" THEN SIsNaN(r[col]) ELSE RIsNaN(r[col])
KeyLess(a, b, col) ==
    IF col = "Z_Score" THEN SLess(a[col], b[col]) ELSE RLess(a[col], b[col])
\* r comes strictly before e in the requested order
Before(r, e, col, ascending) ==
    IF ascending THEN KeyLess(r, e, col) ELSE KeyLess(e, r, col)

InsertRow(sorted, r, col, ascending) ==
    LET ahead == {k \in 1..Len(sorted) : Before(r, sorted[k], col, ascending)}
        at == IF ahead = {} THEN Len(sorted) + 1
              ELSE CHOOSE k \in ahead : \A j \in ahead : k <= j
    IN  SubSeq(sorted, 1, at - 1) \o <<r>> \o SubSeq(sorted, at, Len(sorted))

RECURSIVE InsertionSort(_, _, _)
InsertionSort(d, col, ascending) ==
    IF d = <<>> THEN <<>>
    ELSE InsertRow(InsertionSort(SubSeq(d, 1, Len(d) - 1), col, ascending),
                   d[Len(d)], col, ascending)

sort_values(d, col, ascending) ==
    InsertionSort(SelectSeq(d, LAMBDA r : ~KeyIsNaN(r, col)), col, ascending)
    \o SelectSeq(d, LAMBDA r : KeyIsNaN(r, col))

(***************************************************************************)
(* The arguments the calls are tried with.                                 *)
(***************************************************************************)
MinSamplesArgs == {1} \cup ((MIN_SAMPLES_FOR_REGRESSION - 1)..MaxMinSamples)
SectorsArgs == {None, Some(<<"Corps">>), Some(<<"MBS">>),
                Some(<<"MBS", "Corps">>), Some(<<"Rates">>)}
\* <<z_threshold, max_net_carry, exclude_htm>>; the first is the default
SellArgs == { <<Rat(-3, 2), None, TRUE>>, <<RInt(0), None, FALSE>>,
              <<RInt(0), Some(RInt(0)), TRUE>>, <<Rat(3, 2), Some(RInt(1)), FALSE>>,
              <<RInt(-1), None, TRUE>> }
\* <<z_threshold, min_net_carry, min_liquidity>>; the first is the default
BuyArgs == { <<Rat(3, 2), None, LIQUIDITY_LOW>>, <<RInt(0), None, LIQUIDITY_HIGH>>,
             <<RInt(0), Some(RInt(0)), LIQUIDITY_LOW>>,
             <<Rat(-3, 2), Some(RInt(-2)), LIQUIDITY_HIGH>>,
             <<RInt(1), None, LIQUIDITY_LOW>> }
ModelTypes == {"quadratic"}

NoError == "returned"
ValueError == "ValueError"

(***************************************************************************)
(* PortfolioAnalyzer.__init__                                              *)
(***************************************************************************)
Init ==
    /\ loader = None
    /\ input_df \in Tables
    /\ df = input_df
    /\ model_type \in ModelTypes
    /\ _regression_results = EmptyDict
    /\ _nelson_siegel_results = EmptyDict
    /\ _is_fitted = FALSE
    /\ ret = [op |-> "__init__"]

(***************************************************************************)
(* PortfolioAnalyzer.fit_sector_curves                                     *)
(***************************************************************************)
\* self._regression_results = {} at the start of a fit; as a bug would have
\* it, the curves of the previous fit are kept and merged into
ClearedResults_kept(old) == old

ClearedResults(old) == EmptyDict

FitResults(d, min_samples, sectors_arg, old) ==
    FitLoop(IF sectors_arg = None THEN unique(d) ELSE sectors_arg[1],
            d, min_samples, ClearedResults(old))

\* as a bug would have it: the analyzer counts as fitted only while the
\* curve map has a curve
fit_sector_curves_unless_empty(min_samples, sectors_arg) ==
    \E results \in {FitResults(df, min_samples, sectors_arg, _regression_results)} :
        /\ _regression_results' = results
        /\ _nelson_siegel_results' = EmptyDict
        /\ df' = _calculate_z_scores(df, results)
        /\ _is_fitted' = (results # EmptyDict)
        /\ ret' = [op |-> "fit_sector_curves", min_samples |-> min_samples,
                   sectors |-> sectors_arg, raised |-> NoError,
                   cleared |-> DOMAIN _regression_results,
                   result |-> results]
        /\ UNCHANGED <<loader, input_df, model_type>>

\* ret.cleared names the sectors whose curves the reset at the start of the
\* call discards
fit_sector_curves(min_samples, sectors_arg) ==
    \E results \in {FitResults(df, min_samples, sectors_arg, _regression_results)} :
        /\ _regression_results' = results
        /\ _nelson_siegel_results' = EmptyDict
        /\ df' = _calculate_z_scores(df, results)
        /\ _is_fitted' = TRUE
        /\ ret' = [op |-> "fit_sector_curves", min_samples |-> min_samples,
                   sectors |-> sectors_arg, raised |-> NoError,
                   cleared |-> DOMAIN _regression_results,
                   result |-> results]
        /\ UNCHANGED <<loader, input_df, model_type>>

(***************************************************************************)
(* PortfolioAnalyzer.get_regression_results                                *)
(***************************************************************************)
\* as a bug would have it: the guard on _is_fitted is missing
get_regression_results_unguarded ==
    /\ ret' = [op |-> "get_regression_results", raised |-> NoError,
               result |-> IF model_type = "nelson_siegel"
                          THEN _nelson_siegel_results
                          ELSE _regression_results]
    /\ UNCHANGED <<loader, input_df, df, model_type, _regression_results,
                   _nelson_siegel_results, _is_fitted>>

get_regression_results ==
    /\ ret' = IF ~_is_fitted
              THEN [op |-> "get_regression_results", raised |-> ValueError,
                    result |-> EmptyDict]
              ELSE [op |-> "get_regression_results", raised |-> NoError,
                    result |-> IF model_type = "nelson_siegel"
                               THEN _nelson_siegel_results
                               ELSE _regression_results]
    /\ UNCHANGED <<loader, input_df, df, model_type, _regression_results,
                   _nelson_siegel_results, _is_fitted>>

(***************************************************************************)
(* PortfolioAnalyzer.get_sell_candidates                                   *)
(***************************************************************************)
\* as a bug would have it: exclude_htm is ignored
SellMask_keeps_htm(r, z_threshold, max_net_carry, exclude_htm) ==
    /\ SLess(r.Z_Score, SOfRat(z_threshold))
    /\ max_net_carry # None => RLess(r.Net_Carry, max_net_carry[1])

SellMask(r, z_threshold, max_net_carry, exclude_htm) ==
    /\ SLess(r.Z_Score, SOfRat(z_threshold))
    /\ max_net_carry # None => RLess(r.Net_Carry, max_net_carry[1])
    /\ exclude_htm => r.Is_Tradeable

SellCandidates(d, z_threshold, max_net_carry, exclude_htm) ==
    sort_values(SelectSeq(d, LAMBDA r :
                    SellMask(r, z_threshold, max_net_carry, exclude_htm)),
                "Z_Score", TRUE)

get_sell_candidates(z_threshold, max_net_carry, exclude_htm) ==
    LET call == [op |-> "get_sell_candidates", z_threshold |-> z_threshold,
                 max_net_carry |-> max_net_carry, exclude_htm |-> exclude_htm]
    IN  /\ ret' = IF ~_is_fitted
                  THEN call @@ [raised |-> ValueError, result |-> <<>>]
                  ELSE call @@ [raised |-> NoError,
                                result |-> SellCandidates(df, z_threshold,
                                               max_net_carry, exclude_htm)]
        /\ UNCHANGED <<loader, input_df, df, model_type, _regression_results,
                       _nelson_siegel_results, _is_fitted>>

(***************************************************************************)
(* PortfolioAnalyzer.get_bleeding_assets                                   *)
(***************************************************************************)
BleedingMask(r, exclude_htm) ==
    /\ RLess(r.Net_Carry, RInt(0))
    /\ exclude_htm => r.Is_Tradeable

BleedingAssets(d, exclude_htm) ==
    sort_values(SelectSeq(d, LAMBDA r : BleedingMask(r, exclude_htm)),
                "Net_Carry", TRUE)

\* as a bug would have it: the call demands a fit, like the other screeners
get_bleeding_assets_guarded(exclude_htm) ==
    /\ ret' = IF ~_is_fitted
              THEN [op |-> "get_bleeding_assets", exclude_htm |-> exclude_htm,
                    raised |-> ValueError, result |-> <<>>]
              ELSE [op |-> "get_bleeding_assets", exclude_htm |-> exclude_htm,
                    raised |-> NoError, result |-> BleedingAssets(df, exclude_htm)]
    /\ UNCHANGED <<loader, input_df, df, model_type, _regression_results,
                   _nelson_siegel_results, _is_fitted>>

get_bleeding_assets(exclude_htm) ==
    /\ ret' = [op |-> "get_bleeding_assets", exclude_htm |-> exclude_htm,
               raised |-> NoError, result |-> BleedingAssets(df, exclude_htm)]
    /\ UNCHANGED <<loader, input_df, df, model_type, _regression_results,
                   _nelson_siegel_results, _is_fitted>>

(***************************************************************************)
(* PortfolioAnalyzer.get_buy_candidates                                    *)
(***************************************************************************)
\* as a bug would have it: the liquidity floor is strict
BuyMask_strict_liquidity(r, z_threshold, min_net_carry, min_liquidity) ==
    /\ SLess(SOfRat(z_threshold), r.Z_Score)
    /\ r.Liquidity_Proxy > min_liquidity
    /\ min_net_carry # None => RLess(min_net_carry[1], r.Net_Carry)

\* as a bug would have it: the screen keeps tradeable bonds only, like the
\* default of get_sell_candidates
BuyMask_tradeable_only(r, z_threshold, min_net_carry, min_liquidity) ==
    /\ SLess(SOfRat(z_threshold), r.Z_Score)
    /\ r.Liquidity_Proxy >= min_liquidity
    /\ min_net_carry # None => RLess(min_net_carry[1], r.Net_Carry)
    /\ r.Is_Tradeable

BuyMask(r, z_threshold, min_net_carry, min_liquidity) ==
    /\ SLess(SOfRat(z_threshold), r.Z_Score)
    /\ r.Liquidity_Proxy >= min_liquidity
    /\ min_net_carry # None => RLess(min_net_carry[1], r.Net_Carry)

BuyCandidates(d, z_threshold, min_net_carry, min_liquidity) ==
    sort_values(SelectSeq(d, LAMBDA r :
                    BuyMask(r, z_threshold, min_net_carry, min_liquidity)),
                "Z_Score", FALSE)

get_buy_candidates(z_threshold, min_net_carry, min_liquidity) ==
    LET call == [op |-> "get_buy_candidates", z_threshold |-> z_threshold,
                 min_net_carry |-> min_net_carry, min_liquidity |-> min_liquidity]
    IN  /\ ret' = IF ~_is_fitted
                  THEN call @@ [raised |-> ValueError, result |-> <<>>]
                  ELSE call @@ [raised |-> NoError,
                                result |-> BuyCandidates(df, z_threshold,
                                               min_net_carry, min_liquidity)]
        /\ UNCHANGED <<loader, input_df, df, model_type, _regression_results,
                       _nelson_siegel_results, _is_fitted>>

Next ==
    \/ \E m \in MinSamplesArgs, s \in SectorsArgs : fit_sector_curves(m, s)
    \/ get_regression_results
    \/ \E a \in SellArgs : get_sell_candidates(a[1], a[2], a[3])
    \/ \E x \in BOOLEAN : get_bleeding_assets(x)
    \/ \E a \in BuyArgs : get_buy_candidates(a[1], a[2], a[3])

Spec == Init /\ [][Next]_vars

(***************************************************************************)
(* The analyzer of either model family under an environment: the fit, the  *)
(* curve map and the curve points.                                         *)
(***************************************************************************)
ThinSectorRows == 3
MaxCurvePoints == 4

FitVariants(mtype) ==
    { [shape |-> "flat", noiseCorps |-> "none", noiseMBS |-> "none", seed |-> 0],
      [shape |-> "distressed", noiseCorps |-> "none", noiseMBS |-> "none",
       seed |-> 1] }
    \cup IF mtype = "nelson_siegel" THEN {}
         ELSE { [shape |-> "quadratic", noiseCorps |-> "none", noiseMBS |-> "two",
                 seed |-> 2] }

FitTables(mtype) ==
    { [i \in 1..(nCorps + MIN_SAMPLES_FOR_REGRESSION) |->
          MakeRow(i, nCorps, v, nulls, nCorps + MIN_SAMPLES_FOR_REGRESSION)] :
        nCorps \in {ThinSectorRows} \cup (MIN_SAMPLES_FOR_REGRESSION..MaxSectorRows),
        v \in FitVariants(mtype), nulls \in {"none", "duration"} }

\* one half stands for one unit in the last place of the mean: the guard
\* ss_tot > 0 sees its sign only
Envs == [raises : SUBSET {"Corps", "MBS"}, mean_err : {RInt(0), Rat(-1, 2)}]
FitMinSamplesArgs == {ThinSectorRows, MIN_SAMPLES_FOR_REGRESSION}
FitSectorsArgs == {None}
CurvePointsArgs == {"Corps", "MBS"} \X {1, 2, MaxCurvePoints}

InitFit ==
    /\ loader = None
    /\ model_type \in {"quadratic", "nelson_siegel"}
    /\ input_df \in FitTables(model_type)
    /\ df = input_df
    /\ _regression_results = EmptyDict
    /\ _nelson_siegel_results = EmptyDict
    /\ _is_fitted = FALSE
    /\ ret = [op |-> "__init__"]

FitResultsIn(env, mtype, d, min_samples, sectors_arg) ==
    FitLoopIn(env, mtype,
              IF sectors_arg = None THEN unique(d) ELSE sectors_arg[1],
              d, min_samples, [reg |-> EmptyDict, ns |-> EmptyDict])

ResultsOf(mtype, acc) == IF mtype = "nelson_siegel" THEN acc.ns ELSE acc.reg

\* as a bug would have it: the handlers are missing, and the exception of a
\* sector leaves fit_sector_curves after the dicts were emptied
fit_sector_curves_in_uncaught(env, min_samples, sectors_arg) ==
    LET sectors == IF sectors_arg = None THEN unique(df) ELSE sectors_arg[1]
        thrown == \E k \in 1..Len(sectors) :
                      /\ sectors[k] \in env.raises
                      /\ Len(CleanRows(RowsOfSector(df, sectors[k])))
                             >= MIN_SAMPLES_FOR_REGRESSION
                      /\ ~TooFewRows(RowsOfSector(df, sectors[k]), min_samples)
    IN  \E acc \in {FitResultsIn(env, model_type, df, min_samples, sectors_arg)} :
            /\ _regression_results' = acc.reg
            /\ _nelson_siegel_results' = acc.ns
            /\ df' = IF thrown THEN df
                     ELSE _calculate_z_scores(df, ResultsOf(model_type, acc))
            /\ _is_fitted' = IF thrown THEN _is_fitted ELSE TRUE
            /\ ret' = [op |-> "fit_sector_curves", min_samples |-> min_samples,
                       sectors |-> sectors_arg, env |-> env,
                       raised |-> IF thrown THEN "Exception" ELSE NoError,
                       result |-> IF thrown THEN EmptyDict
                                  ELSE ResultsOf(model_type, acc)]
            /\ UNCHANGED <<loader, input_df, model_type>>

fit_sector_curves_in(env, min_samples, sectors_arg) ==
    \E acc \in {FitResultsIn(env, model_type, df, min_samples, sectors_arg)} :
        /\ _regression_results' = acc.reg
        /\ _nelson_siegel_results' = acc.ns
        /\ df' = _calculate_z_scores(df, ResultsOf(model_type, acc))
        /\ _is_fitted' = TRUE
        /\ ret' = [op |-> "fit_sector_curves", min_samples |-> min_samples,
                   sectors |-> sectors_arg, env |-> env, raised |-> NoError,
                   result |-> ResultsOf(model_type, acc)]
        /\ UNCHANGED <<loader, input_df, model_type>>

(***************************************************************************)
(* PortfolioAnalyzer.get_curve_points                                      *)
(***************************************************************************)
\* as a bug would have it: the samples stop one step short of stop
np_linspace_open(start, stop, num) ==
    Array([i \in 1..num |->
              RAdd(start, RMul(RInt(i - 1), RDiv(RSub(stop, start), RInt(num))))])

\* np.linspace(start, stop, num): num evenly spaced samples, the last one
\* stop when num > 1, the only one start when num = 1
np_linspace(start, stop, num) ==
    Array([i \in 1..num |->
              IF num = 1 THEN start
              ELSE IF i = num THEN stop
              ELSE RAdd(start, RMul(RInt(i - 1),
                                    RDiv(RSub(stop, start), RInt(num - 1))))])

get_curve_points(sector, n_points) ==
    LET results == IF model_type = "nelson_siegel"
                   THEN _nelson_siegel_results ELSE _regression_results
        call == [op |-> "get_curve_points", sector |-> sector,
                 n_points |-> n_points]
    IN  /\ ret' = IF sector \notin DOMAIN results
                  THEN call @@ [raised |-> ValueError, result |-> <<>>]
                  ELSE LET result == results[sector]
                           x == np_linspace(result.duration_range[1],
                                            result.duration_range[2], n_points)
                           y == Array([i \in 1..n_points |-> predict(result, x[i])])
                       IN  call @@ [raised |-> NoError, result |-> <<x, y>>]
        /\ UNCHANGED <<loader, input_df, df, model_type, _regression_results,
                       _nelson_siegel_results, _is_fitted>>

NextFit ==
    \/ \E env \in Envs, m \in FitMinSamplesArgs, a \in FitSectorsArgs :
          fit_sector_curves_in(env, m, a)
    \/ get_regression_results
    \/ \E a \in CurvePointsArgs : get_curve_points(a[1], a[2])

SpecFit == InitFit /\ [][NextFit]_vars

(***************************************************************************)
(* The portfolio metrics and the executive summary.  The tables are tables *)
(* of the input contract: no value of a row is missing and no Nominal_USD  *)
(* is negative.                                                            *)
(***************************************************************************)
ThinSectors == <<"Rates", "ABS", "Muni", "Sov", "Fin">>
\* the sort order of the group keys (sectors and accounting classes)
KeyOrder == <<"ABS", "AFS", "Corps", "Fair Value", "Fin", "HTM", "MBS", "Muni",
              "Rates", "Sov", "Unknown">>

EmptyTable == <<>>

\* two sectors of MIN_SAMPLES_FOR_REGRESSION rows and nThin sectors of one row
ManySectors(v, nThin) ==
    LET n == 2 * MIN_SAMPLES_FOR_REGRESSION
    IN  [i \in 1..(n + nThin) |->
            IF i <= n THEN MakeRow(i, MIN_SAMPLES_FOR_REGRESSION, v, "none", n)
            ELSE [MakeRow(i, MIN_SAMPLES_FOR_REGRESSION, v, "none", n)
                     EXCEPT !.Sector_L1 = ThinSectors[i - n]]]

\* the table t with every position closed out
ZeroNotional(t) ==
    [k \in 1..Len(t) |-> [t[k] EXCEPT !.Nominal_USD = RInt(0),
                                      !.Liquidity_Proxy = LIQUIDITY_LOW]]

\* three bonds of 10, 20 and 10 millions with durations 2, 4, 6 and yields
\* 3 %, 5 %, 7 %, funded at 4 %
ThreeBonds ==
    [i \in 1..3 |->
        [Ticker |-> i, Sector_L1 |-> "Corps",
         Accounting |-> AccountingCycle[i],
         Nominal_USD |-> RInt(IF i = 2 THEN 20 ELSE 10),
         Duration |-> RInt(2 * i),
         Yield |-> Rat(2 * i + 1, 100),
         Net_Carry |-> RSub(Rat(2 * i + 1, 100), Rat(4, 100)),
         Is_Tradeable |-> AccountingCycle[i] # "HTM",
         Liquidity_Proxy |-> IF i = 2 THEN LIQUIDITY_HIGH ELSE LIQUIDITY_LOW]]

SummaryVariants ==
    { [shape |-> "linear", noiseCorps |-> "none", noiseMBS |-> "one", seed |-> 1],
      [shape |-> "quadratic", noiseCorps |-> "two", noiseMBS |-> "one", seed |-> 2] }

SummaryTables ==
    {EmptyTable, ThreeBonds}
    \cup { ManySectors(v, Len(ThinSectors)) : v \in SummaryVariants }
    \cup { ZeroNotional(ManySectors(v, 1)) : v \in SummaryVariants }
    \cup { [i \in 1..(nCorps + MIN_SAMPLES_FOR_REGRESSION) |->
              MakeRow(i, nCorps, v, "none", nCorps + MIN_SAMPLES_FOR_REGRESSION)] :
            nCorps \in (MIN_SAMPLES_FOR_REGRESSION - 1)..MIN_SAMPLES_FOR_REGRESSION,
            v \in SummaryVariants }

InitSummary ==
    /\ loader = None
    /\ input_df \in SummaryTables
    /\ df = input_df
    /\ model_type = "quadratic"
    /\ _regression_results = EmptyDict
    /\ _nelson_siegel_results = EmptyDict
    /\ _is_fitted = FALSE
    /\ ret = [op |-> "__init__"]

(***************************************************************************)
(* pandas and numpy reductions.  A division of numpy scalars never raises: *)
(* 0 / 0 is NaN and x / 0 is an infinity of the sign of x.  An infinity is *)
(* a pair with denominator 0 and numerator 1 or -1; it only occurs as a    *)
(* value of the summary and is not computed with further.                  *)
(***************************************************************************)
Inf(sign) == [num |-> sign, den |-> 0]
isinf(r) == r.den = 0 /\ r.num # 0

np_true_divide(p, q) ==
    IF notna(p) /\ notna(q) /\ q.num = 0 /\ p.num # 0 THEN Inf(Sign(p.num))
    ELSE RDiv(p, q)

\* x / y * 100
Percent(x, y) ==
    LET q == np_true_divide(x, y) IN IF isinf(q) THEN q ELSE RMul(q, RInt(100))

\* Series.sum(): missing values are skipped, the sum of nothing is 0
Series_sum(v) == np_sum(SelectSeq(v, LAMBDA x : notna(x)))

\* mask.sum(), for the rows the mask selects
CountRows(selected) == Len(selected)

\* df.loc[mask, "Nominal_USD"].sum(), for the rows the mask selects
Exposure(selected) == Series_sum(Column(selected, "Nominal_USD"))

\* df.groupby(by): the keys present, in sorted order
GroupKeys(d, by) ==
    SelectSeq(KeyOrder, LAMBDA key : \E k \in 1..Len(d) : d[k][by] = key)

\* as a bug would have it: the sums are sorted in ascending order
GroupExposure_ascending(d, by) ==
    LET keys == GroupKeys(d, by)
        sums == [j \in 1..Len(keys) |->
                    [key |-> keys[j],
                     Nominal_USD |->
                         Exposure(SelectSeq(d, LAMBDA r : r[by] = keys[j]))]]
    IN  sort_values(sums, "Nominal_USD", TRUE)

\* df.groupby(by)["Nominal_USD"].sum().sort_values(ascending=False).to_dict(),
\* as the sequence of the items of the dict
GroupExposure(d, by) ==
    LET keys == GroupKeys(d, by)
        sums == [j \in 1..Len(keys) |->
                    [key |-> keys[j],
                     Nominal_USD |->
                         Exposure(SelectSeq(d, LAMBDA r : r[by] = keys[j]))]]
    IN  sort_values(sums, "Nominal_USD", FALSE)

(***************************************************************************)
(* PortfolioAnalyzer.calculate_portfolio_metrics                           *)
(***************************************************************************)
\* as a bug would have it: the guard on a total of 0 is missing
weighted_avg_unguarded(d, col, total_aum) ==
    np_true_divide(
        Series_sum([k \in 1..Len(d) |-> RMul(d[k][col], d[k].Nominal_USD)]),
        total_aum)

weighted_avg(d, col, total_aum) ==
    IF RLess(RInt(0), total_aum)
    THEN np_true_divide(
             Series_sum([k \in 1..Len(d) |-> RMul(d[k][col], d[k].Nominal_USD)]),
             total_aum)
    ELSE RInt(0)

\* as a bug would have it: the tradeable bonds are the AFS bonds alone
PortfolioMetrics_afs_tradeable(d) ==
    LET total_aum == Series_sum(Column(d, "Nominal_USD"))
        negative_carry_mask == SelectSeq(d, LAMBDA r : RLess(r.Net_Carry, RInt(0)))
        htm_mask == SelectSeq(d, LAMBDA r : r.Accounting = "HTM")
        tradeable == SelectSeq(d, LAMBDA r : r.Accounting = "AFS")
    IN  [total_aum |-> total_aum,
         weighted_duration |-> weighted_avg(d, "Duration", total_aum),
         weighted_yield |-> weighted_avg(d, "Yield", total_aum),
         weighted_net_carry |-> weighted_avg(d, "Net_Carry", total_aum),
         negative_carry_count |-> CountRows(negative_carry_mask),
         negative_carry_exposure |-> Exposure(negative_carry_mask),
         htim_count |-> CountRows(htm_mask),
         htm_exposure |-> Exposure(htm_mask),
         tradeable_count |-> CountRows(tradeable),
         tradeable_exposure |-> Exposure(tradeable),
         sector_exposures |-> GroupExposure(d, "Sector_L1"),
         accounting_breakdown |-> GroupExposure(d, "Accounting")]

PortfolioMetrics(d) ==
    LET total_aum == Series_sum(Column(d, "Nominal_USD"))
        negative_carry_mask == SelectSeq(d, LAMBDA r : RLess(r.Net_Carry, RInt(0)))
        htm_mask == SelectSeq(d, LAMBDA r : r.Accounting = "HTM")
        tradeable == SelectSeq(d, LAMBDA r : r.Is_Tradeable)
    IN  [total_aum |-> total_aum,
         weighted_duration |-> weighted_avg(d, "Duration", total_aum),
         weighted_yield |-> weighted_avg(d, "Yield", total_aum),
         weighted_net_carry |-> weighted_avg(d, "Net_Carry", total_aum),
         negative_carry_count |-> CountRows(negative_carry_mask),
         negative_carry_exposure |-> Exposure(negative_carry_mask),
         htim_count |-> CountRows(htm_mask),
         htm_exposure |-> Exposure(htm_mask),
         tradeable_count |-> CountRows(tradeable),
         tradeable_exposure |-> Exposure(tradeable),
         sector_exposures |-> GroupExposure(d, "Sector_L1"),
         accounting_breakdown |-> GroupExposure(d, "Accounting")]

\* as a bug would have it: the call demands a fit, like the screeners
calculate_portfolio_metrics_guarded ==
    /\ ret' = IF ~_is_fitted
              THEN [op |-> "calculate_portfolio_metrics", raised |-> ValueError,
                    result |-> <<>>]
              ELSE [op |-> "calculate_portfolio_metrics", raised |-> NoError,
                    result |-> PortfolioMetrics(df)]
    /\ UNCHANGED <<loader, input_df, df, model_type, _regression_results,
                   _nelson_siegel_results, _is_fitted>>

calculate_portfolio_metrics ==
    /\ ret' = [op |-> "calculate_portfolio_metrics", raised |-> NoError,
               result |-> PortfolioMetrics(df)]
    /\ UNCHANGED <<loader, input_df, df, model_type, _regression_results,
                   _nelson_siegel_results, _is_fitted>>

(***************************************************************************)
(* PortfolioAnalyzer.get_sector_summary                                    *)
(***************************************************************************)
\* the root of a rational that is the square of a rational
ISqrt(n) == CHOOSE k \in 0..n : k * k = n
RSqrt(r) == Rat(ISqrt(r.num), ISqrt(r.den))

\* b / a for two Z-Scores of one sector, a not 0: their ratio is the ratio
\* of the residuals, a rational
SRatio(b, a) == RMul(RInt(b.sgn * a.sgn), RSqrt(RDiv(b.sq, a.sq)))
\* c * a for a rational c
SScale(a, c) == [sgn |-> a.sgn * Sign(c.num), sq |-> RMul(a.sq, RSquare(c))]

\* the mean of the Z_Score column of one group; missing values are skipped
\* and the mean of nothing is NaN
Z_mean(zs) ==
    LET vals == SelectSeq(zs, LAMBDA z : ~SIsNaN(z))
        nonzero == {k \in 1..Len(vals) : vals[k].sgn # 0}
    IN  IF vals = <<>> THEN SNaN
        ELSE IF nonzero = {} THEN SOfRat(RInt(0))
        ELSE LET a == vals[CHOOSE k \in nonzero : TRUE]
                 ratios == [k \in 1..Len(vals) |-> SRatio(vals[k], a)]
             IN  SScale(a, np_mean(ratios))

\* the mean of a column of one group
Series_mean(v) ==
    LET vals == SelectSeq(v, LAMBDA x : notna(x))
    IN  IF vals = <<>> THEN NaN ELSE np_mean(vals)

\* n / d rounded to the nearest integer, halves to the even one (d > 0)
RoundHalfEven(n, d) ==
    LET q == n \div d
        rem == n % d
    IN  IF 2 * rem < d THEN q
        ELSE IF 2 * rem > d THEN q + 1
        ELSE IF q % 2 = 0 THEN q ELSE q + 1

\* .round(4)
Round4(r) ==
    IF isna(r) THEN NaN ELSE Rat(RoundHalfEven(r.num * 10000, r.den), 10000)
\* .round(4) of a mean Z-Score; the means that occur are 0 and NaN
Round4Z(z) == CASE SIsNaN(z) -> SNaN [] z.sgn = 0 -> z

\* if not self._is_fitted: self.fit_sector_curves()
EnsureFitted ==
    IF _is_fitted
    THEN [df |-> df, results |-> _regression_results,
          ns |-> _nelson_siegel_results]
    ELSE LET results == FitResults(df, MIN_SAMPLES_FOR_REGRESSION, None,
                                   _regression_results)
         IN  [df |-> _calculate_z_scores(df, results), results |-> results,
              ns |-> EmptyDict]

\* the summary frame, without its Z_Score_Std column (the sample standard
\* deviation of the Z-Scores of the sector, rounded)
SectorSummary(d) ==
    LET keys == GroupKeys(d, "Sector_L1")
        rows == [j \in 1..Len(keys) |->
                    LET g == RowsOfSector(d, keys[j])
                    IN  [Sector_L1 |-> keys[j],
                         Total_Exposure |->
                             Round4(Series_sum(Column(g, "Nominal_USD"))),
                         Count |-> Len(SelectSeq(g, LAMBDA r : notna(r.Nominal_USD))),
                         Avg_Duration |-> Round4(Series_mean(Column(g, "Duration"))),
                         Avg_Yield |-> Round4(Series_mean(Column(g, "Yield"))),
                         Avg_Net_Carry |-> Round4(Series_mean(Column(g, "Net_Carry"))),
                         Avg_Z_Score |-> Round4Z(Z_mean(Column(g, "Z_Score")))]]
    IN  sort_values(rows, "Total_Exposure", FALSE)

get_sector_summary ==
    \E fitted \in {EnsureFitted} :
        /\ df' = fitted.df
        /\ _regression_results' = fitted.results
        /\ _nelson_siegel_results' = fitted.ns
        /\ _is_fitted' = TRUE
        /\ ret' = [op |-> "get_sector_summary", raised |-> NoError,
                   result |-> SectorSummary(fitted.df)]
        /\ UNCHANGED <<loader, input_df, model_type>>

(***************************************************************************)
(* PortfolioAnalyzer.generate_executive_summary.  The result is the record *)
(* of the values the markdown text formats, before they are formatted.     *)
(***************************************************************************)
\* Series.head(n) and items[:n]
FirstN(s, n) == SubSeq(s, 1, IF Len(s) < n THEN Len(s) ELSE n)

\* as a bug would have it: the sectors are not sorted by their mean
RichestSectors_unsorted(d) ==
    LET keys == GroupKeys(d, "Sector_L1")
        means == [j \in 1..Len(keys) |->
                     [key |-> keys[j],
                      Z_Score |-> Z_mean(Column(RowsOfSector(d, keys[j]), "Z_Score"))]]
    IN  FirstN(means, 3)

\* self.df.groupby("Sector_L1")["Z_Score"].mean().sort_values().head(3)
RichestSectors(d) ==
    LET keys == GroupKeys(d, "Sector_L1")
        means == [j \in 1..Len(keys) |->
                     [key |-> keys[j],
                      Z_Score |-> Z_mean(Column(RowsOfSector(d, keys[j]), "Z_Score"))]]
    IN  FirstN(sort_values(means, "Z_Score", TRUE), 3)

Interpretation(z) ==
    IF SLess(z, SOfRat(RInt(-1))) THEN "Very Rich"
    ELSE IF SLess(z, SOfRat(Rat(-1, 2))) THEN "Moderately Rich"
    ELSE "Slightly Rich"

\* as a bug would have it: the share of a bucket is taken of the other one
LiquidityShare_of_rest(count, d) == Percent(RInt(count), RInt(Len(d) - count))

\* count / len(self.df) * 100
LiquidityShare(count, d) == Percent(RInt(count), RInt(Len(d)))

\* the rows of the loop over list(metrics.sector_exposures.items())[:5]
Allocation(metrics) ==
    LET items == FirstN(metrics.sector_exposures, 5)
    IN  [j \in 1..Len(items) |->
            [sector |-> items[j].key, exposure |-> items[j].Nominal_USD,
             pct |-> Percent(items[j].Nominal_USD, metrics.total_aum)]]

ExecutiveSummary(metrics, d) ==
    LET richest_sectors == RichestSectors(d)
        high_liq == CountRows(SelectSeq(d, LAMBDA r : r.Liquidity_Proxy >= 5))
        low_liq == CountRows(SelectSeq(d, LAMBDA r : r.Liquidity_Proxy < 5))
    IN  [total_aum |-> metrics.total_aum,
         holdings |-> Len(d),
         weighted_duration |-> metrics.weighted_duration,
         weighted_yield |-> RMul(metrics.weighted_yield, RInt(100)),
         weighted_net_carry |-> RMul(metrics.weighted_net_carry, RInt(100)),
         negative_carry_count |-> metrics.negative_carry_count,
         negative_carry_exposure |-> metrics.negative_carry_exposure,
         htim_count |-> metrics.htim_count,
         htm_exposure |-> metrics.htm_exposure,
         richest |-> [j \in 1..Len(richest_sectors) |->
                         [sector |-> richest_sectors[j].key,
                          z |-> richest_sectors[j].Z_Score,
                          interpretation |->
                              Interpretation(richest_sectors[j].Z_Score)]],
         high_liq |-> high_liq,
         high_liq_pct |-> LiquidityShare(high_liq, d),
         low_liq |-> low_liq,
         low_liq_pct |-> LiquidityShare(low_liq, d),
         allocation |-> Allocation(metrics)]

generate_executive_summary ==
    \E metrics \in {PortfolioMetrics(df)}, fitted \in {EnsureFitted} :
        /\ df' = fitted.df
        /\ _regression_results' = fitted.results
        /\ _nelson_siegel_results' = fitted.ns
        /\ _is_fitted' = TRUE
        /\ ret' = [op |-> "generate_executive_summary", raised |-> NoError,
                   result |-> ExecutiveSummary(metrics, fitted.df)]
        /\ UNCHANGED <<loader, input_df, model_type>>

(***************************************************************************)
(* The analyzer with its metrics and summaries.                            *)
(***************************************************************************)
SummaryMinSamplesArgs == {MIN_SAMPLES_FOR_REGRESSION, MaxMinSamples}

NextSummary ==
    \/ \E m \in SummaryMinSamplesArgs : fit_sector_curves(m, None)
    \/ calculate_portfolio_metrics
    \/ get_sector_summary
    \/ generate_executive_summary
    \/ get_regression_results
    \/ get_sell_candidates(RInt(0), None, FALSE)
    \/ get_buy_candidates(RInt(0), None, LIQUIDITY_LOW)

SpecSummary == InitSummary /\ [][NextSummary]_vars

(***************************************************************************)
(* DataLoader (src/src/module_b/data_loader.py).                           *)
(*                                                                         *)
(* A raw table is [columns, rows]: the headers, and one sequence of cells  *)
(* per row, aligned with the headers.  A header is <<name, padded>>:       *)
(* padded says that the name is surrounded by blanks, which str.strip()    *)
(* removes.  The two Chinese headers and the full-width brackets of the    *)
(* nominal header are written with their code points.  A cell is           *)
(* <<"float", r>>, a number or NaN, <<"int", i>>, or <<"str", s>>, a       *)
(* string; a string is the sequence of its characters, and the string      *)
(* operations below work on the characters.  The analyzer of this section  *)
(* reads loaded tables: their Yield and FTP columns are fractions (0.045   *)
(* is 9 / 200).                                                            *)
(***************************************************************************)
COLUMN_MAPPING ==
       ("\\u5206\\u7c7b1" :> "Sector_L1")
    @@ ("\\u5206\\u7c7b2" :> "Sector_L2")
    @@ ("TICKER" :> "Ticker")
    @@ ("\\u503a\\u5238\\u540d\\u79f0" :> "Name")
    @@ ("AccSection" :> "Accounting")
    @@ ("Nominal\\uff08USD\\uff09" :> "Nominal_USD")
    @@ ("Duration" :> "Duration")
    @@ ("EffectiveYield" :> "Yield")
    @@ ("OAS" :> "OAS")
    @@ ("FTP Rate" :> "FTP")

REQUIRED_COLUMNS ==
    {"Sector_L1", "Ticker", "Accounting", "Nominal_USD", "Duration", "Yield"}

DEFAULT_FTP == 0

\* as a bug would have it: an unclassified bond is not tradeable either
NON_TRADEABLE_ACCOUNTING_with_unknown ==
    {<<"H", "T", "M">>, <<"U", "n", "k", "n", "o", "w", "n">>}

NON_TRADEABLE_ACCOUNTING == {<<"H", "T", "M">>}

\* the character c in lower case (to = 1) or upper case (to = 2); Letters
\* holds the cased letters as <<lower case, upper case>>
CaseOf(c, to) ==
    LET Letters == <<
       <<"a", "A">>, <<"b", "B">>, <<"c", "C">>, <<"d", "D">>, <<"e", "E">>,
       <<"f", "F">>, <<"g", "G">>, <<"h", "H">>, <<"i", "I">>, <<"j", "J">>,
       <<"k", "K">>, <<"l", "L">>, <<"m", "M">>, <<"n", "N">>, <<"o", "O">>,
       <<"p", "P">>, <<"q", "Q">>, <<"r", "R">>, <<"s", "S">>, <<"t", "T">>,
       <<"u", "U">>, <<"v", "V">>, <<"w", "W">>, <<"x", "X">>, <<"y", "Y">>,
       <<"z", "Z">>
            >>
    IN  IF \E k \in 1..Len(Letters) : c \in {Letters[k][1], Letters[k][2]}
        THEN Letters[CHOOSE k \in 1..Len(Letters) :
                         c \in {Letters[k][1], Letters[k][2]}][to]
        ELSE c

str_upper(s) == [i \in 1..Len(s) |-> CaseOf(s[i], 2)]

\* str.title(): a letter is upper case after a character that is not a
\* letter, and at the start, and lower case after a letter
str_title(s) ==
    [i \in 1..Len(s) |->
        IF i > 1 /\ CaseOf(s[i - 1], 1) # CaseOf(s[i - 1], 2)
        THEN CaseOf(s[i], 1) ELSE CaseOf(s[i], 2)]

\* str.strip(): without the leading and trailing blanks
str_strip(s) ==
    LET inked == {i \in 1..Len(s) : s[i] # " "}
    IN  IF inked = {} THEN <<>>
        ELSE SubSeq(s, CHOOSE i \in inked : \A j \in inked : i <= j,
                       CHOOSE i \in inked : \A j \in inked : j <= i)

\* s.replace(old, "") for one character old
str_replace(s, old) == SelectSeq(s, LAMBDA c : c # old)

\* the value of a sequence of decimal digits
RECURSIVE DigitsValue(_)
DigitsValue(digits) ==
    IF digits = <<>> THEN 0
    ELSE 10 * DigitsValue(SubSeq(digits, 1, Len(digits) - 1))
         + (CHOOSE v \in 0..9 :
                <<"0", "1", "2", "3", "4", "5", "6", "7", "8", "9">>[v + 1]
                    = digits[Len(digits)])

\* float(s) for a string of a sign, digits and a decimal point, between
\* blanks; any other string of the model (letters, brackets, a slash, an
\* inner blank) raises ValueError, which every caller catches and turns into
\* NaN, so NaN stands for it.  A number has at most four decimals.
float(s) ==
    LET t == str_strip(s)
        signed == t # <<>> /\ t[1] \in {"-", "+"}
        body == IF signed THEN Tail(t) ELSE t
        digits == str_replace(body, ".")
        points == {i \in 1..Len(body) : body[i] = "."}
    IN  IF \/ digits = <<>>
           \/ Cardinality(points) > 1
           \/ \E i \in 1..Len(digits) :
                  digits[i] \notin {"0", "1", "2", "3", "4", "5", "6", "7", "8", "9"}
        THEN NaN
        ELSE Rat((IF signed /\ t[1] = "-" THEN -1 ELSE 1) * DigitsValue(digits),
                 IPow(10, IF points = {} THEN 0
                          ELSE Len(body) - (CHOOSE i \in points : TRUE)))

\* parse_nominal of _clean_nominal
parse_nominal(val) ==
    IF val[1] = "float" THEN val[2]
    ELSE LET s == str_replace(str_replace(str_replace(str_strip(val[2]),
                                          ","), "$"), " ")
             negative == /\ Len(s) >= 1 /\ s[1] = "(" /\ s[Len(s)] = ")"
         IN  float(IF negative THEN <<"-">> \o SubSeq(s, 2, Len(s) - 1) ELSE s)

\* parse_yield of _clean_yield
parse_yield(val) ==
    IF val[1] = "float"
    THEN IF isna(val[2]) \/ RLess(val[2], RInt(1)) THEN val[2]
         ELSE RDiv(val[2], RInt(100))
    ELSE LET val_float == float(str_replace(str_replace(str_strip(val[2]),
                                            "%"), " "))
         IN  IF RLess(RInt(1), val_float) THEN RDiv(val_float, RInt(100))
             ELSE val_float

\* parse_ftp of _clean_ftp: an inner blank is kept and makes float raise
parse_ftp(val) ==
    IF val[1] = "float"
    THEN IF isna(val[2]) \/ RLess(val[2], RInt(1)) THEN val[2]
         ELSE RDiv(val[2], RInt(100))
    ELSE LET val_float == float(str_replace(str_strip(val[2]), "%"))
         IN  IF RLess(RInt(1), val_float) THEN RDiv(val_float, RInt(100))
             ELSE val_float

accounting_map ==
       (<<"H", "T", "M">> :> <<"H", "T", "M">>)
    @@ (<<"H", "M">> :> <<"H", "T", "M">>)
    @@ (<<"H", "O", "L", "D", " ", "T", "O", " ", "M", "A", "T", "U", "R", "I", "T", "Y">> :> <<"H", "T", "M">>)
    @@ (<<"H", "O", "L", "D", "T", "O", "M", "A", "T", "U", "R", "I", "T", "Y">> :> <<"H", "T", "M">>)
    @@ (<<"A", "F", "S">> :> <<"A", "F", "S">>)
    @@ (<<"A", "V", "A", "I", "L", "A", "B", "L", "E", " ", "F", "O", "R", " ", "S", "A", "L", "E">> :> <<"A", "F", "S">>)
    @@ (<<"A", "V", "A", "I", "L", "A", "B", "L", "E", "F", "O", "R", "S", "A", "L", "E">> :> <<"A", "F", "S">>)
    @@ (<<"F", "A", "I", "R", " ", "V", "A", "L", "U", "E">> :> <<"F", "a", "i", "r", " ", "V", "a", "l", "u", "e">>)
    @@ (<<"F", "A", "I", "R", "V", "A", "L", "U", "E">> :> <<"F", "a", "i", "r", " ", "V", "a", "l", "u", "e">>)
    @@ (<<"F", "V">> :> <<"F", "a", "i", "r", " ", "V", "a", "l", "u", "e">>)
    @@ (<<"F", "V", "P", "L">> :> <<"F", "a", "i", "r", " ", "V", "a", "l", "u", "e">>)
    @@ (<<"F", "V", "O", "C", "I">> :> <<"A", "F", "S">>)

sector_map ==
       (<<"C", "O", "R", "P", "S">> :> <<"C", "o", "r", "p", "s">>)
    @@ (<<"C", "O", "R", "P", "O", "R", "A", "T", "E", "S">> :> <<"C", "o", "r", "p", "s">>)
    @@ (<<"C", "O", "R", "P", "O", "R", "A", "T", "E">> :> <<"C", "o", "r", "p", "s">>)
    @@ (<<"F", "I", "N", "S">> :> <<"F", "i", "n", "s">>)
    @@ (<<"F", "I", "N", "A", "N", "C", "I", "A", "L", "S">> :> <<"F", "i", "n", "s">>)
    @@ (<<"F", "I", "N", "A", "N", "C", "I", "A", "L">> :> <<"F", "i", "n", "s">>)
    @@ (<<"M", "B", "S">> :> <<"M", "B", "S">>)
    @@ (<<"R", "A", "T", "E", "S">> :> <<"R", "a", "t", "e", "s">>)
    @@ (<<"G", "O", "V", "E", "R", "N", "M", "E", "N", "T">> :> <<"R", "a", "t", "e", "s">>)
    @@ (<<"T", "R", "E", "A", "S", "U", "R", "I", "E", "S">> :> <<"R", "a", "t", "e", "s">>)
    @@ (<<"E", "M">> :> <<"E", "M">>)
    @@ (<<"E", "M", "E", "R", "G", "I", "N", "G">> :> <<"E", "M">>)
    @@ (<<"M", "U", "N", "I", "S">> :> <<"M", "u", "n", "i", "s">>)
    @@ (<<"M", "U", "N", "I", "C", "I", "P", "A", "L">> :> <<"M", "u", "n", "i", "s">>)
    @@ (<<"A", "B", "S">> :> <<"A", "B", "S">>)
    @@ (<<"C", "M", "B", "S">> :> <<"C", "M", "B", "S">>)
    @@ (<<"C", "L", "O">> :> <<"C", "L", "O">>)
    @@ (<<"S", "O", "V", "S">> :> <<"S", "o", "v", "s">>)
    @@ (<<"S", "O", "V", "E", "R", "E", "I", "G", "N">> :> <<"S", "o", "v", "s">>)

\* DataLoader._rename_columns: the headers after df.rename(columns=rename_map).
\* A header is renamed if it is a source name, or if it is a padded source
\* name and no header is that name exactly.
_rename_columns(columns) ==
    [k \in 1..Len(columns) |->
        IF /\ columns[k][1] \in DOMAIN COLUMN_MAPPING
           /\ columns[k][2] =>
                  \A j \in 1..Len(columns) : columns[j] # <<columns[k][1], FALSE>>
        THEN <<COLUMN_MAPPING[columns[k][1]], FALSE>>
        ELSE columns[k]]

\* DataLoader._validate_required_columns: the set `missing`; the method
\* raises DataValidationError unless it is empty
_validate_required_columns(columns) ==
    {c \in REQUIRED_COLUMNS : \A k \in 1..Len(columns) : columns[k] # <<c, FALSE>>}

\* the row after _clean_nominal, _clean_yield, _clean_duration, _clean_oas,
\* _clean_ftp, _clean_accounting and _clean_sectors; the columns that no
\* step reads are left out.  A sector or accounting cell is a string or NaN.
CleanRow(columns, row) ==
    LET has(name) == \E k \in 1..Len(columns) : columns[k] = <<name, FALSE>>
        at(name) == row[CHOOSE k \in 1..Len(columns) : columns[k] = <<name, FALSE>>]
        to_numeric(val) == IF val[1] = "float" THEN val[2] ELSE float(val[2])
        fillna(val, text) == IF val[1] = "str" THEN val[2] ELSE text
        FTP == IF has("FTP") THEN parse_ftp(at("FTP")) ELSE NaN
        accounting == IF has("Accounting")
                      THEN str_upper(str_strip(fillna(at("Accounting"),
                               <<"U", "n", "k", "n", "o", "w", "n">>)))
                      ELSE <<"U", "N", "K", "N", "O", "W", "N">>
        sector == str_upper(str_strip(fillna(at("Sector_L1"),
                                             <<"O", "t", "h", "e", "r">>)))
    IN  [Ticker |-> at("Ticker")[2],
         Sector_L1 |-> IF sector \in DOMAIN sector_map THEN sector_map[sector]
                       ELSE str_title(sector),
         Accounting |-> IF accounting \in DOMAIN accounting_map
                        THEN accounting_map[accounting]
                        ELSE str_title(accounting),
         Nominal_USD |-> parse_nominal(at("Nominal_USD")),
         Duration |-> to_numeric(at("Duration")),
         Yield |-> parse_yield(at("Yield")),
         OAS |-> IF has("OAS") THEN to_numeric(at("OAS")) ELSE NaN,
         FTP |-> IF isna(FTP) THEN RInt(DEFAULT_FTP) ELSE FTP,
         FTP_Missing |-> isna(FTP)]

\* as a bug would have it: the division without the guard on Duration
_enrich_data_unguarded(r) ==
    LET Net_Carry == RSub(r.Yield, r.FTP)
    IN  [Liquidity_Proxy |-> IF RLess(RInt(LIQUIDITY_THRESHOLD), r.Nominal_USD)
                             THEN LIQUIDITY_HIGH ELSE LIQUIDITY_LOW,
         Net_Carry |-> Net_Carry,
         Carry_Efficiency |-> np_true_divide(Net_Carry, r.Duration),
         Is_Tradeable |-> r.Accounting \notin NON_TRADEABLE_ACCOUNTING] @@ r

\* as a bug would have it: a bond of exactly the threshold is in the high tier
_enrich_data_inclusive(r) ==
    LET Net_Carry == RSub(r.Yield, r.FTP)
    IN  [Liquidity_Proxy |-> IF ~RLess(r.Nominal_USD, RInt(LIQUIDITY_THRESHOLD))
                                /\ notna(r.Nominal_USD)
                             THEN LIQUIDITY_HIGH ELSE LIQUIDITY_LOW,
         Net_Carry |-> Net_Carry,
         Carry_Efficiency |->
             IF notna(r.Duration) /\ r.Duration.num = 0 THEN NaN
             ELSE np_true_divide(Net_Carry, r.Duration),
         Is_Tradeable |-> r.Accounting \notin NON_TRADEABLE_ACCOUNTING] @@ r

\* DataLoader._enrich_data for one row.  np.where evaluates both branches;
\* the division of two Series does not raise where Duration is 0.
_enrich_data(r) ==
    LET Net_Carry == RSub(r.Yield, r.FTP)
    IN  [Liquidity_Proxy |-> IF RLess(RInt(LIQUIDITY_THRESHOLD), r.Nominal_USD)
                             THEN LIQUIDITY_HIGH ELSE LIQUIDITY_LOW,
         Net_Carry |-> Net_Carry,
         Carry_Efficiency |->
             IF notna(r.Duration) /\ r.Duration.num = 0 THEN NaN
             ELSE np_true_divide(Net_Carry, r.Duration),
         Is_Tradeable |-> r.Accounting \notin NON_TRADEABLE_ACCOUNTING] @@ r

\* DataLoader._final_cleanup: dropna on the critical columns, reset_index
_final_cleanup(d) ==
    SelectSeq(d, LAMBDA r : /\ notna(r.Nominal_USD) /\ notna(r.Duration)
                            /\ notna(r.Yield))

(***************************************************************************)
(* The raw tables.  Every table has the eight columns sector, ticker,      *)
(* accounting, nominal, duration, yield, FTP and OAS, in this order, or    *)
(* all of them but one.  "full" is a sector of six bonds on three          *)
(* durations, whose yields are whole numbers once parsed; "percent" has    *)
(* the formats of the tests of the loader; "dirty" has a cell that does    *)
(* not parse in the nominal, the duration and the yield column, and a      *)
(* missing FTP.                                                            *)
(***************************************************************************)
RawRows(style) ==
    LET S(s) == <<"str", s>>
        F(n, d) == <<"float", Rat(n, d)>>
    IN  CASE style = "full" ->
            << <<S(<<"c", "o", "r", "p", "s">>),
                 <<"int", 1>>,
                 S(<<"h", "t", "m">>),
                 S(<<"5">>),
                 F(0, 1),
                 F(200, 1),
                 F(500, 1),
                 F(50, 1)>>,
               <<S(<<"C", "O", "R", "P", "O", "R", "A", "T", "E", "S">>),
                 <<"int", 2>>,
                 S(<<"H", "M">>),
                 S(<<"1", "0">>),
                 F(1, 1),
                 S(<<"5", "0", "0", "%">>),
                 S(<<"1", "%">>),
                 S(<<"4", "5">>)>>,
               <<S(<<" ", "C", "o", "r", "p", "s", " ">>),
                 <<"int", 3>>,
                 S(<<"H", "o", "l", "d", " ", "T", "o", " ", "M", "a", "t", "u", "r", "i", "t", "y">>),
                 S(<<"1", "0", ".", "5">>),
                 F(2, 1),
                 F(400, 1),
                 F(0, 0),
                 F(0, 0)>>,
               <<S(<<"C", "o", "r", "p", "o", "r", "a", "t", "e">>),
                 <<"int", 4>>,
                 S(<<"A", "F", "S">>),
                 S(<<"1", ",", "0", "0", "0">>),
                 F(0, 1),
                 S(<<"3", "0", "0", "%">>),
                 S(<<"4", "5", "0", "%">>),
                 F(55, 1)>>,
               <<S(<<"c", "o", "r", "p", "s">>),
                 <<"int", 5>>,
                 S(<<"f", "v", "o", "c", "i">>),
                 F(20, 1),
                 F(1, 1),
                 F(300, 1),
                 F(1, 2),
                 S(<<"n", "/", "a">>)>>,
               <<S(<<"C", "O", "R", "P", "S">>),
                 <<"int", 6>>,
                 F(0, 0),
                 S(<<"$", "5", "0">>),
                 F(2, 1),
                 S(<<"2", "0", "0", "%">>),
                 S(<<"2", ".", "5", " ", "%">>),
                 F(60, 1)>> >>
          [] style = "percent" ->
            << <<S(<<"m", "b", "s", " ">>),
                 <<"int", 1>>,
                 S(<<"H", "T", "M">>),
                 S(<<"1", "5">>),
                 F(5, 1),
                 S(<<"4", ".", "5", "%">>),
                 S(<<"4", "%">>),
                 F(50, 1)>>,
               <<S(<<"p", "r", "i", "v", "a", "t", "e", " ", "c", "r", "e", "d", "i", "t">>),
                 <<"int", 2>>,
                 S(<<"t", "r", "a", "d", "i", "n", "g">>),
                 S(<<"(", "2", ".", "5", ")">>),
                 F(0, 1),
                 F(19, 500),
                 S(<<"3", ".", "5", "%">>),
                 F(45, 1)>>,
               <<F(0, 0),
                 <<"int", 3>>,
                 S(<<"F", "a", "i", "r", " ", "V", "a", "l", "u", "e">>),
                 F(10, 1),
                 S(<<"2", ".", "5">>),
                 S(<<"5", "%">>),
                 F(0, 0),
                 F(55, 1)>> >>
          [] style = "dirty" ->
            << <<S(<<"R", "a", "t", "e", "s">>),
                 <<"int", 1>>,
                 S(<<" ", "h", "m", " ">>),
                 S(<<"N", "/", "A">>),
                 F(1, 1),
                 S(<<"3", "%">>),
                 S(<<"1", "%">>),
                 F(50, 1)>>,
               <<S(<<"E", "M">>),
                 <<"int", 2>>,
                 F(0, 0),
                 S(<<"1", "5", "0">>),
                 S(<<"x">>),
                 S(<<"4", "%">>),
                 S(<<"1", " ", "%">>),
                 F(45, 1)>>,
               <<S(<<"c", "l", "o">>),
                 <<"int", 3>>,
                 S(<<"A", "F", "S">>),
                 F(20, 1),
                 F(0, 1),
                 S(<<"a", "b", "c">>),
                 F(0, 0),
                 F(55, 1)>>,
               <<S(<<"R", "a", "t", "e", "s">>),
                 <<"int", 4>>,
                 S(<<"H", "o", "l", "d", " ", "T", "o", " ", "M", "a", "t", "u", "r", "i", "t", "y">>),
                 S(<<"(", "3", ")">>),
                 F(0, 1),
                 F(0, 1),
                 S(<<"2", "%">>),
                 F(60, 1)>> >>

Sources ==
    LET names == <<"\\u5206\\u7c7b1", "TICKER", "AccSection",
                   "Nominal\\uff08USD\\uff09", "Duration", "EffectiveYield",
                   "FTP Rate", "OAS">>
        Without(seq, k) == SubSeq(seq, 1, k - 1) \o SubSeq(seq, k + 1, Len(seq))
        Table(columns, style) ==
            [columns |-> columns, rows |-> RawRows(style)]
        bilingual == [k \in 1..Len(names) |-> <<names[k], FALSE>>]
        english == [k \in 1..Len(names) |-> <<COLUMN_MAPPING[names[k]], FALSE>>]
        padded == [k \in 1..Len(names) |-> <<names[k], TRUE>>]
        padded_english == [k \in 1..Len(names) |->
                              <<COLUMN_MAPPING[names[k]], TRUE>>]
    IN  {Table(bilingual, style) : style \in {"full", "percent", "dirty"}}
        \cup {Table(columns, "percent") :
                 columns \in {english, padded, padded_english}}
        \cup {[columns |-> Without(bilingual, k),
               rows |-> [i \in 1..Len(RawRows(style)) |->
                            Without(RawRows(style)[i], k)]] :
                 k \in 1..Len(names), style \in {"percent"}}
        \cup {[columns |-> Without(bilingual, 7),
               rows |-> [i \in 1..Len(RawRows("dirty")) |->
                            Without(RawRows("dirty")[i], 7)]]}

(***************************************************************************)
(* DataLoader.__init__ and DataLoader.load, and the analyzer the           *)
(* application builds on the table a load returned.                        *)
(***************************************************************************)
DataValidationError == "DataValidationError"

InitLoader ==
    /\ loader \in {[strict_mode |-> strict_mode, _quality_report |-> None,
                    _raw_df |-> None, _clean_df |-> None] :
                      strict_mode \in BOOLEAN}
    /\ input_df = None
    /\ df = None
    /\ model_type = "quadratic"
    /\ _regression_results = EmptyDict
    /\ _nelson_siegel_results = EmptyDict
    /\ _is_fitted = FALSE
    /\ ret = [op |-> "DataLoader.__init__"]

\* as a bug would have it: self._clean_df is assigned as soon as the table
\* is read, like self._raw_df, and a failed load leaves it empty
load_clean_df_early(source) ==
    \E columns \in {_rename_columns(source.columns)} :
      \E enriched \in {IF _validate_required_columns(columns) # {} THEN <<>>
                       ELSE [k \in 1..Len(source.rows) |->
                                _enrich_data(CleanRow(columns, source.rows[k]))]} :
        /\ loader' = [loader EXCEPT
                        !._quality_report = Some([total_rows |-> Len(source.rows)]),
                        !._raw_df = Some(source),
                        !._clean_df = Some(_final_cleanup(enriched))]
        /\ ret' = IF _validate_required_columns(columns) # {}
                  THEN [op |-> "load", raised |-> DataValidationError,
                        result |-> <<>>]
                  ELSE [op |-> "load", raised |-> NoError,
                        result |-> _final_cleanup(enriched)]
        /\ UNCHANGED <<input_df, df, model_type, _regression_results,
                       _nelson_siegel_results, _is_fitted>>

\* DataLoader.load(source) for a DataFrame source.  The quality report and
\* the raw table are replaced before the validation; self.strict_mode is
\* not read.
load(source) ==
    \E columns \in {_rename_columns(source.columns)} :
      IF _validate_required_columns(columns) # {}
      THEN /\ loader' = [loader EXCEPT
                           !._quality_report =
                               Some([total_rows |-> Len(source.rows),
                                     rows_after_cleaning |-> 0,
                                     ftp_missing_count |-> 0,
                                     ftp_missing_tickers |-> <<>>,
                                     nominal_parse_errors |-> 0,
                                     yield_parse_errors |-> 0,
                                     duration_zero_count |-> 0,
                                     unknown_accounting |-> <<>>]),
                           !._raw_df = Some(source)]
           /\ ret' = [op |-> "load", raised |-> DataValidationError,
                      result |-> <<>>]
           /\ UNCHANGED <<input_df, df, model_type, _regression_results,
                          _nelson_siegel_results, _is_fitted>>
      ELSE
        \E enriched \in {[k \in 1..Len(source.rows) |->
                            _enrich_data(CleanRow(columns, source.rows[k]))]} :
          LET n == Len(source.rows)
              raw(k, name) ==
                  source.rows[k][CHOOSE j \in 1..Len(columns) :
                                     columns[j] = <<name, FALSE>>]
              \* original_valid - new_valid of a parsed column
              parse_errors(name) ==
                  Cardinality({k \in 1..n : \/ raw(k, name)[1] = "str"
                                            \/ notna(raw(k, name)[2])})
                  - Cardinality({k \in 1..n : notna(enriched[k][name])})
              known_types == {<<"H", "T", "M">>, <<"A", "F", "S">>,
                              <<"F", "a", "i", "r", " ", "V", "a", "l", "u", "e">>,
                              <<"U", "n", "k", "n", "o", "w", "n">>}
              \* .unique(): in the order of first appearance
              firsts == SelectSeq([k \in 1..n |-> k], LAMBDA k :
                            /\ enriched[k].Accounting \notin known_types
                            /\ \A j \in 1..(k - 1) :
                                   enriched[j].Accounting # enriched[k].Accounting)
              missing == SelectSeq(enriched, LAMBDA r : r.FTP_Missing)
              report ==
                  [total_rows |-> n,
                   rows_after_cleaning |-> Len(_final_cleanup(enriched)),
                   ftp_missing_count |-> Len(missing),
                   ftp_missing_tickers |->
                       IF \E j \in 1..Len(columns) : columns[j] = <<"FTP", FALSE>>
                       THEN [k \in 1..Len(missing) |-> missing[k].Ticker]
                       ELSE <<>>,
                   nominal_parse_errors |-> parse_errors("Nominal_USD"),
                   yield_parse_errors |-> parse_errors("Yield"),
                   duration_zero_count |->
                       Len(SelectSeq(enriched, LAMBDA r :
                               notna(r.Duration) /\ r.Duration.num = 0)),
                   unknown_accounting |->
                       [k \in 1..Len(firsts) |-> enriched[firsts[k]].Accounting]]
          IN  /\ loader' = [loader EXCEPT
                              !._quality_report = Some(report),
                              !._raw_df = Some(source),
                              !._clean_df = Some(_final_cleanup(enriched))]
              /\ ret' = [op |-> "load", raised |-> NoError,
                         result |-> _final_cleanup(enriched)]
              /\ UNCHANGED <<input_df, df, model_type, _regression_results,
                             _nelson_siegel_results, _is_fitted>>

\* analyzer = PortfolioAnalyzer(df), df being the table of the last
\* successful load (src/app.py); the model builds it on a table with rows
PortfolioAnalyzer ==
    /\ loader._clean_df # None
    /\ loader._clean_df[1] # <<>>
    /\ input_df' = loader._clean_df[1]
    /\ df' = loader._clean_df[1]
    /\ model_type' = "quadratic"
    /\ _regression_results' = EmptyDict
    /\ _nelson_siegel_results' = EmptyDict
    /\ _is_fitted' = FALSE
    /\ ret' = [op |-> "__init__"]
    /\ UNCHANGED loader

NextLoader ==
    \/ \E source \in Sources : load(source)
    \/ PortfolioAnalyzer
    \/ input_df # None /\ fit_sector_curves(MIN_SAMPLES_FOR_REGRESSION, None)
    \/ input_df # None /\ get_sell_candidates(RInt(0), None, TRUE)
    \/ input_df # None /\ get_bleeding_assets(TRUE)

SpecLoader == InitLoader /\ [][NextLoader]_vars

(***************************************************************************)
(* Vocabulary of the properties.                                           *)
(***************************************************************************)
Range(seq) == {seq[k] : k \in 1..Len(seq)}
Tickers(rows) == {rows[k].Ticker : k \in 1..Len(rows)}
SectorsOf(d) == {d[k].Sector_L1 : k \in 1..Len(d)}
\* the number of rows of a sector with non-null Duration and Yield
ValidCount(d, sector) ==
    Cardinality({k \in 1..Len(d) : /\ d[k].Sector_L1 = sector
                                  /\ notna(d[k].Duration) /\ notna(d[k].Yield)})
RowCount(d, sector) == Cardinality({k \in 1..Len(d) : d[k].Sector_L1 = sector})
\* the rows of `rows` are rows of d, each at most once
RowsFrom(rows, d) ==
    /\ \A k \in 1..Len(rows) : rows[k] \in Range(d)
    /\ Cardinality(Tickers(rows)) = Len(rows)
AscendingZ(rows) ==
    \A i, j \in 1..Len(rows) : i < j => ~SLess(rows[j].Z_Score, rows[i].Z_Score)
DescendingZ(rows) ==
    \A i, j \in 1..Len(rows) : i < j => ~SLess(rows[i].Z_Score, rows[j].Z_Score)
AscendingCarry(rows) ==
    \A i, j \in 1..Len(rows) : i < j => ~RLess(rows[j].Net_Carry, rows[i].Net_Carry)
CurveMap == IF model_type = "nelson_siegel"
            THEN _nelson_siegel_results ELSE _regression_results
FitDependentOps == {"get_sell_candidates", "get_buy_candidates",
                    "get_regression_results"}

(***************************************************************************)
(* C1.  After fit_sector_curves(min_samples = m) over all sectors with the *)
(* quadratic model, the returned map has a curve for exactly the sectors   *)
(* with at least m rows of non-null Duration and Yield.  The code does not *)
(* do this: _fit_single_curve compares the valid rows with the constant    *)
(* MIN_SAMPLES_FOR_REGRESSION, not with m, and the loop compares m with    *)
(* all the rows of the sector, valid or not.                               *)
(***************************************************************************)
C1_CurveIffMinSamplesValidRows ==
    (ret.op = "fit_sector_curves" /\ ret.sectors = None /\ model_type = "quadratic")
    => \A s \in SectorsOf(df) :
          s \in DOMAIN ret.result <=> ValidCount(df, s) >= ret.min_samples

(***************************************************************************)
(* C2.  While no fit has completed, get_sell_candidates,                   *)
(* get_buy_candidates and get_regression_results raise ValueError, and the *)
(* analyzer is as constructed: not fitted, no curve, the table untouched.  *)
(***************************************************************************)
C2_NotFittedRaises ==
    (~_is_fitted /\ ret.op \in FitDependentOps)
    => /\ ret.raised = ValueError
       /\ _regression_results = EmptyDict
       /\ _nelson_siegel_results = EmptyDict
       /\ df = input_df

C2_Witness ==
    /\ ~_is_fitted
    /\ ret.op = "get_buy_candidates"
    /\ ret.raised = ValueError

(***************************************************************************)
(* C3.  On a fitted analyzer get_sell_candidates(t, max_net_carry,         *)
(* exclude_htm) returns exactly the rows with a defined Z-Score below t,   *)
(* Net Carry below max_net_carry when that is given and Is_Tradeable when  *)
(* exclude_htm is set, in ascending order of Z-Score.                      *)
(***************************************************************************)
C3_Expected(t, max_net_carry, exclude_htm) ==
    {df[k].Ticker : k \in
        {k \in 1..Len(df) :
            /\ ~SIsNaN(df[k].Z_Score)
            /\ SLess(df[k].Z_Score, SOfRat(t))
            /\ max_net_carry = None \/ RLess(df[k].Net_Carry, max_net_carry[1])
            /\ ~exclude_htm \/ df[k].Is_Tradeable}}

C3_SellCandidatesExact ==
    (ret.op = "get_sell_candidates" /\ _is_fitted)
    => /\ ret.raised = NoError
       /\ RowsFrom(ret.result, df)
       /\ Tickers(ret.result)
            = C3_Expected(ret.z_threshold, ret.max_net_carry, ret.exclude_htm)
       /\ AscendingZ(ret.result)
       /\ ret.result = <<>>
            <=> C3_Expected(ret.z_threshold, ret.max_net_carry, ret.exclude_htm) = {}

\* two candidates of different Z-Score, while a filter has removed a bond
\* that is below the threshold
C3_Witness ==
    /\ ret.op = "get_sell_candidates" /\ _is_fitted
    /\ Len(ret.result) >= 2
    /\ SLess(ret.result[1].Z_Score, ret.result[Len(ret.result)].Z_Score)
    /\ \E k \in 1..Len(df) :
          /\ SLess(df[k].Z_Score, SOfRat(ret.z_threshold))
          /\ df[k].Ticker \notin Tickers(ret.result)

(***************************************************************************)
(* C4.  On a fitted analyzer get_buy_candidates(t, min_net_carry,          *)
(* min_liquidity) returns exactly the rows with a defined Z-Score above t, *)
(* liquidity tier at least min_liquidity and Net Carry above min_net_carry *)
(* when that is given, in descending order of Z-Score.                     *)
(***************************************************************************)
C4_Expected(t, min_net_carry, min_liquidity) ==
    {df[k].Ticker : k \in
        {k \in 1..Len(df) :
            /\ ~SIsNaN(df[k].Z_Score)
            /\ SLess(SOfRat(t), df[k].Z_Score)
            /\ df[k].Liquidity_Proxy >= min_liquidity
            /\ min_net_carry = None \/ RLess(min_net_carry[1], df[k].Net_Carry)}}

C4_BuyCandidatesExact ==
    (ret.op = "get_buy_candidates" /\ _is_fitted)
    => /\ ret.raised = NoError
       /\ RowsFrom(ret.result, df)
       /\ Tickers(ret.result)
            = C4_Expected(ret.z_threshold, ret.min_net_carry, ret.min_liquidity)
       /\ DescendingZ(ret.result)

C4_Witness ==
    /\ ret.op = "get_buy_candidates" /\ _is_fitted
    /\ Len(ret.result) >= 2
    /\ SLess(ret.result[Len(ret.result)].Z_Score, ret.result[1].Z_Score)
    /\ \E k \in 1..Len(df) :
          /\ SLess(SOfRat(ret.z_threshold), df[k].Z_Score)
          /\ df[k].Ticker \notin Tickers(ret.result)

(***************************************************************************)
(* C5.  get_bleeding_assets never raises, fitted or not; it returns        *)
(* exactly the rows with Net Carry < 0 (the tradeable ones when            *)
(* exclude_htm is set) in ascending order of Net Carry, and which bonds    *)
(* these are is decided by the table as it was given: no fit changes it.   *)
(***************************************************************************)
C5_Expected(exclude_htm) ==
    {input_df[k].Ticker : k \in
        {k \in 1..Len(input_df) :
            /\ RLess(input_df[k].Net_Carry, RInt(0))
            /\ ~exclude_htm \/ input_df[k].Is_Tradeable}}

C5_BleedingNeedsNoFit ==
    ret.op = "get_bleeding_assets"
    => /\ ret.raised = NoError
       /\ RowsFrom(ret.result, df)
       /\ Tickers(ret.result) = C5_Expected(ret.exclude_htm)
       /\ AscendingCarry(ret.result)

C5_Witness ==
    /\ ret.op = "get_bleeding_assets" /\ ~_is_fitted
    /\ ret.exclude_htm
    /\ Len(ret.result) >= 2
    /\ RLess(ret.result[1].Net_Carry, ret.result[Len(ret.result)].Net_Carry)
    /\ \E k \in 1..Len(df) :
          RLess(df[k].Net_Carry, RInt(0)) /\ ~df[k].Is_Tradeable

(***************************************************************************)
(* C6.  A sector with fewer rows than min_samples gets no curve: after the *)
(* fit its rows have NaN Model_Yield, Residual and Z_Score, and no         *)
(* threshold makes get_sell_candidates or get_buy_candidates return one of *)
(* them.                                                                   *)
(***************************************************************************)
C6_Thresholds == {RInt(-1000), Rat(-3, 2), RInt(0), Rat(3, 2), RInt(1000)}

C6_Undefined(r) == isna(r.Model_Yield) /\ isna(r.Residual) /\ SIsNaN(r.Z_Score)

C6_ThinSectorNeverScreened ==
    /\ ret.op = "fit_sector_curves"
       => \A s \in SectorsOf(df) :
             RowCount(df, s) < ret.min_samples
             => /\ s \notin DOMAIN ret.result
                /\ s \notin DOMAIN CurveMap
                /\ \A k \in 1..Len(df) :
                      df[k].Sector_L1 = s => C6_Undefined(df[k])
                /\ \A t \in C6_Thresholds :
                      /\ \A r \in Range(SellCandidates(df, t, None, FALSE)) :
                            r.Sector_L1 # s
                      /\ \A r \in Range(BuyCandidates(df, t, None, LIQUIDITY_LOW)) :
                            r.Sector_L1 # s
    /\ (ret.op \in {"get_sell_candidates", "get_buy_candidates"}
        /\ ret.raised = NoError)
       => \A r \in Range(ret.result) :
             r.Sector_L1 \in DOMAIN CurveMap /\ ~C6_Undefined(r)

\* 4 Corps bonds and min_samples = 5, next to a sector that is fitted
C6_Witness ==
    /\ ret.op = "fit_sector_curves"
    /\ ret.min_samples = MIN_SAMPLES_FOR_REGRESSION
    /\ RowCount(df, "Corps") = MIN_SAMPLES_FOR_REGRESSION - 1
    /\ "Corps" \notin DOMAIN ret.result
    /\ "MBS" \in DOMAIN ret.result
    /\ \E k \in 1..Len(df) : ~SIsNaN(df[k].Z_Score)

(***************************************************************************)
(* C7.  After a fit, a row whose sector has a curve has Model_Yield =      *)
(* curve.predict(Duration) and Residual = Yield - Model_Yield; its Z_Score *)
(* is Residual / residual_std when residual_std > 0 and NaN, never 0 and   *)
(* never infinite, when residual_std is 0.  In a sector whose residual_std *)
(* is 0, Model_Yield is defined for the rows that have a Duration and      *)
(* Residual for the rows that have a Duration and a Yield.  A row whose    *)
(* sector has no curve has the three of them NaN.                          *)
(***************************************************************************)
C7_Quadratic(c, x) ==
    RAdd(RAdd(RMul(c.coefficients[1], RMul(x, x)), RMul(c.coefficients[2], x)),
         c.coefficients[3])

C7_Equations(r, c) ==
    /\ r.Model_Yield = C7_Quadratic(c, r.Duration)
    /\ r.Residual = RSub(r.Yield, r.Model_Yield)
    /\ c.residual_std.sgn >= 0
    /\ c.residual_std.sgn > 0 => r.Z_Score = RDivS(r.Residual, c.residual_std)
    /\ c.residual_std.sgn = 0 => SIsNaN(r.Z_Score)

C7_DerivedFields ==
    _is_fitted =>
    \A k \in 1..Len(df) :
        LET r == df[k]
        IN  IF r.Sector_L1 \in DOMAIN CurveMap
            THEN LET c == CurveMap[r.Sector_L1]
                 IN  /\ C7_Equations(r, c)
                     /\ notna(r.Duration) => notna(r.Model_Yield)
                     /\ (notna(r.Duration) /\ notna(r.Yield)) => notna(r.Residual)
            ELSE C6_Undefined(r)

\* a sector fitted exactly (residual_std = 0) that has a row without Yield,
\* next to a sector fitted with noise
C7_Witness ==
    /\ _is_fitted
    /\ \E s1, s2 \in DOMAIN CurveMap :
          /\ CurveMap[s1].residual_std.sgn = 0
          /\ CurveMap[s2].residual_std.sgn > 0
          /\ \E k \in 1..Len(df) :
                df[k].Sector_L1 = s1 /\ notna(df[k].Residual)
          /\ \E k \in 1..Len(df) :
                df[k].Sector_L1 = s1 /\ isna(df[k].Yield)
          /\ \E k \in 1..Len(df) :
                df[k].Sector_L1 = s2 /\ df[k].Z_Score.sgn < 0

\* the statement without the proviso: in a sector whose residual_std is 0
\* every row has a defined Model_Yield and a defined Residual
C7_AlwaysDefined ==
    _is_fitted =>
    \A k \in 1..Len(df) :
        LET r == df[k]
        IN  IF r.Sector_L1 \in DOMAIN CurveMap
            THEN LET c == CurveMap[r.Sector_L1]
                 IN  /\ C7_Equations(r, c)
                     /\ c.residual_std.sgn = 0
                        => notna(r.Model_Yield) /\ notna(r.Residual)
            ELSE C6_Undefined(r)

(***************************************************************************)
(* C8.  Fitting is idempotent: a fit_sector_curves call that follows a     *)
(* call with the same arguments leaves the curve map and every row of the  *)
(* scored table as that call left them.                                    *)
(***************************************************************************)
C8_FitIdempotent ==
    [][ ( /\ ret.op = "fit_sector_curves"
          /\ ret'.op = "fit_sector_curves"
          /\ ret'.min_samples = ret.min_samples
          /\ ret'.sectors = ret.sectors )
        => ( /\ _regression_results' = _regression_results
             /\ _nelson_siegel_results' = _nelson_siegel_results
             /\ df' = df
             /\ ret'.result = ret.result ) ]_vars

\* a fit over a map of the same sectors, which has produced a curve fitted
\* exactly and a curve with noise, one of them over a sector with a null in it
C8_Witness ==
    /\ ret.op = "fit_sector_curves"
    /\ ret.cleared = DOMAIN ret.result
    /\ \E s1, s2 \in DOMAIN ret.result :
          /\ ret.result[s1].residual_std.sgn = 0
          /\ ret.result[s2].residual_std.sgn > 0
    /\ \E s \in DOMAIN ret.result : ValidCount(df, s) < RowCount(df, s)

(***************************************************************************)
(* C9.  After any sequence of fits the curve map and the scored table are  *)
(* those the last call alone produces on a fresh analyzer over the table   *)
(* as given: nothing of an earlier fit survives.                           *)
(***************************************************************************)
C9_LastFitAlone ==
    ret.op = "fit_sector_curves"
    => LET fresh == FitLoop(IF ret.sectors = None THEN unique(input_df)
                            ELSE ret.sectors[1],
                            input_df, ret.min_samples, EmptyDict)
       IN  /\ CurveMap = fresh
           /\ ret.result = fresh
           /\ df = _calculate_z_scores(input_df, fresh)
           /\ \A k \in 1..Len(df) :
                 df[k].Sector_L1 \notin DOMAIN fresh => C6_Undefined(df[k])

\* the last call fitted MBS alone, after a fit that had given Corps a curve
C9_Witness ==
    /\ ret.op = "fit_sector_curves"
    /\ ret.sectors = Some(<<"MBS">>)
    /\ "Corps" \in ret.cleared
    /\ DOMAIN CurveMap = {"MBS"}
    /\ \A k \in 1..Len(df) : df[k].Sector_L1 = "Corps" => C6_Undefined(df[k])
    /\ ValidCount(df, "Corps") >= MIN_SAMPLES_FOR_REGRESSION
    /\ ret.min_samples <= MIN_SAMPLES_FOR_REGRESSION

(***************************************************************************)
(* C10.  A fit changes the three derived columns, the curve map and the    *)
(* fitted flag only: the scored table has the rows of the input in the     *)
(* same order, with every input field as given.                            *)
(***************************************************************************)
C10_InputFieldsUnchanged ==
    /\ Len(df) = Len(input_df)
    /\ InputView(df) = input_df
    /\ model_type \in ModelTypes
    /\ \A k \in 1..Len(df) :
          DOMAIN df[k] = IF _is_fitted THEN InputCols \cup DerivedCols
                         ELSE InputCols

\* a scored table in which a row without a curve precedes a scored row
C10_Witness ==
    /\ _is_fitted
    /\ \E i, j \in 1..Len(df) :
          /\ i < j
          /\ isna(df[i].Model_Yield)
          /\ ~SIsNaN(df[j].Z_Score)

(***************************************************************************)
(* C11.  When the numerical routine of a sector fails inside a fit, for    *)
(* either model, fit_sector_curves returns: the sector is not in the map   *)
(* and its rows have NaN Model_Yield, Residual and Z_Score, every other    *)
(* sector has the curve, or no curve, that the same call gives it on the   *)
(* table without the failing sectors, and the analyzer is fitted.          *)
(***************************************************************************)
\* the sectors that reach the numerical routine and make it raise
C11_Failing(d, mtype, env, min_samples) ==
    { s \in SectorsOf(d) :
        LET sector_df == RowsOfSector(d, s)
            clean_df == CleanRows(sector_df)
        IN  /\ Len(sector_df) >= min_samples
            /\ Len(clean_df) >= MIN_SAMPLES_FOR_REGRESSION
            /\ \/ s \in env.raises
               \/ /\ mtype = "nelson_siegel"
                  /\ Infeasible(InitialGuess(Column(clean_df, "Duration"),
                                             Column(clean_df, "Yield"))) }

C11_FailureContained ==
    ret.op = "fit_sector_curves" =>
    LET failing == C11_Failing(df, model_type, ret.env, ret.min_samples)
        without == SelectSeq(df, LAMBDA r : r.Sector_L1 \notin failing)
        alone == ResultsOf(model_type,
                           FitResultsIn(ret.env, model_type, without,
                                        ret.min_samples, ret.sectors))
    IN  /\ ret.raised = NoError
        /\ _is_fitted
        /\ ret.result = CurveMap
        /\ \A s \in failing :
              /\ s \notin DOMAIN CurveMap
              /\ \A k \in 1..Len(df) :
                    df[k].Sector_L1 = s => C6_Undefined(df[k])
        /\ \A s \in SectorsOf(df) \ failing :
              /\ s \in DOMAIN CurveMap <=> s \in DOMAIN alone
              /\ s \in DOMAIN CurveMap => CurveMap[s] = alone[s]

\* a Nelson-Siegel fit in which Corps fails and MBS gets its curve
C11_Witness ==
    /\ ret.op = "fit_sector_curves"
    /\ model_type = "nelson_siegel"
    /\ "Corps" \in C11_Failing(df, model_type, ret.env, ret.min_samples)
    /\ "Corps" \in ret.env.raises
    /\ DOMAIN CurveMap = {"MBS"}
    /\ _is_fitted

(***************************************************************************)
(* C12: calculate_portfolio_metrics does not depend on the fit state: it   *)
(* never raises, what it returns is the PortfolioMetrics of the table as   *)
(* it was loaded, whether no fit, one fit or several fits with different   *)
(* settings came before, and it changes neither the curve maps, the fitted *)
(* flag nor the table.                                                     *)
(***************************************************************************)
C12_MetricsIgnoreFit ==
    /\ [](ret.op = "calculate_portfolio_metrics"
            => /\ ret.raised = NoError
               /\ ret.result = PortfolioMetrics(input_df))
    /\ [][ret'.op = "calculate_portfolio_metrics"
            => UNCHANGED <<input_df, df, model_type, _regression_results,
                           _nelson_siegel_results, _is_fitted>>]_vars

C12_Witness ==
    /\ ret.op = "calculate_portfolio_metrics"
    /\ _is_fitted
    /\ DOMAIN _regression_results # {}
    /\ df # input_df
    /\ RLess(RInt(0), ret.result.total_aum)

(***************************************************************************)
(* C13: the weighted duration, yield and net carry of PortfolioMetrics are *)
(* sum(value_i * notional_i) / sum(notional_i) over all bonds, and 0 when  *)
(* the total notional is 0; for the three bonds with durations 2, 4, 6,    *)
(* notionals 10, 20, 10 millions and yields 3 %, 5 %, 7 % the weighted     *)
(* yield is 5 % and the weighted duration 4.                               *)
(***************************************************************************)
C13_Weighted(d, col) ==
    LET notional == RSum(Column(d, "Nominal_USD"))
        weighted == RSum([i \in 1..Len(d) |-> RMul(d[i][col], d[i].Nominal_USD)])
    IN  IF notional = RInt(0) THEN RInt(0) ELSE RDiv(weighted, notional)

C13_WeightedAverages ==
    ret.op = "calculate_portfolio_metrics" =>
        /\ ret.result.weighted_duration = C13_Weighted(input_df, "Duration")
        /\ ret.result.weighted_yield = C13_Weighted(input_df, "Yield")
        /\ ret.result.weighted_net_carry = C13_Weighted(input_df, "Net_Carry")
        /\ input_df = ThreeBonds =>
              /\ ret.result.weighted_yield = Rat(5, 100)
              /\ ret.result.weighted_duration = RInt(4)

C13_Witness ==
    /\ ret.op = "calculate_portfolio_metrics"
    /\ input_df = ThreeBonds
    /\ ret.result.total_aum = RInt(40)
    /\ ret.result.weighted_yield = Rat(5, 100)

(***************************************************************************)
(* C14: when the total notional is 0, because every Nominal_USD is 0 or    *)
(* because the table has no rows, calculate_portfolio_metrics and          *)
(* generate_executive_summary return without raising, and no weighted      *)
(* average, sector allocation percentage or liquidity percentage they      *)
(* compute is infinite.                                                    *)
(***************************************************************************)
C14_ZeroTotal(d) == \A k \in 1..Len(d) : d[k].Nominal_USD = RInt(0)

C14_ZeroTotalIsFinite ==
    C14_ZeroTotal(input_df) =>
        /\ ret.op \in {"calculate_portfolio_metrics", "generate_executive_summary"}
              => /\ ret.raised = NoError
                 /\ ~isinf(ret.result.weighted_duration)
                 /\ ~isinf(ret.result.weighted_yield)
                 /\ ~isinf(ret.result.weighted_net_carry)
        /\ ret.op = "generate_executive_summary"
              => /\ \A j \in 1..Len(ret.result.allocation) :
                        ~isinf(ret.result.allocation[j].pct)
                 /\ ~isinf(ret.result.high_liq_pct)
                 /\ ~isinf(ret.result.low_liq_pct)

C14_Witness ==
    /\ ret.op = "generate_executive_summary"
    /\ input_df # EmptyTable
    /\ C14_ZeroTotal(input_df)
    /\ ret.result.total_aum = RInt(0)
    /\ ret.result.weighted_yield = RInt(0)
    /\ \E j \in 1..Len(ret.result.allocation) : isna(ret.result.allocation[j].pct)

(***************************************************************************)
(* C15: in PortfolioMetrics the sector exposure map has one entry per      *)
(* sector of the table, the sum of Nominal_USD over the bonds of the       *)
(* sector, and the accounting map one entry per accounting class likewise; *)
(* both maps are in descending order of exposure; the negative-carry count *)
(* and exposure count and sum the bonds with Net_Carry < 0, the HTM count  *)
(* and exposure the bonds with Accounting = HTM.                           *)
(***************************************************************************)
RECURSIVE C15_Notional(_, _)
C15_Notional(d, bonds) ==
    IF bonds = {} THEN RInt(0)
    ELSE LET k == CHOOSE k \in bonds : TRUE
         IN  RAdd(d[k].Nominal_USD, C15_Notional(d, bonds \ {k}))

C15_ExposureMap(items, d, by) ==
    /\ {items[j].key : j \in 1..Len(items)} = {d[k][by] : k \in 1..Len(d)}
    /\ Len(items) = Cardinality({d[k][by] : k \in 1..Len(d)})
    /\ \A j \in 1..Len(items) :
          items[j].Nominal_USD =
              C15_Notional(d, {k \in 1..Len(d) : d[k][by] = items[j].key})
    /\ \A i, j \in 1..Len(items) :
          i < j => ~RLess(items[i].Nominal_USD, items[j].Nominal_USD)

C15_ExposuresAndCounts ==
    ret.op = "calculate_portfolio_metrics" =>
        LET d == input_df
            bleeding == {k \in 1..Len(d) : RLess(d[k].Net_Carry, RInt(0))}
            htm == {k \in 1..Len(d) : d[k].Accounting = "HTM"}
        IN  /\ C15_ExposureMap(ret.result.sector_exposures, d, "Sector_L1")
            /\ C15_ExposureMap(ret.result.accounting_breakdown, d, "Accounting")
            /\ ret.result.negative_carry_count = Cardinality(bleeding)
            /\ ret.result.negative_carry_exposure = C15_Notional(d, bleeding)
            /\ ret.result.htim_count = Cardinality(htm)
            /\ ret.result.htm_exposure = C15_Notional(d, htm)

C15_Witness ==
    /\ ret.op = "calculate_portfolio_metrics"
    /\ Len(ret.result.sector_exposures) = 2 + Len(ThinSectors)
    /\ Len(ret.result.accounting_breakdown) = Len(AccountingCycle)
    /\ RLess(ret.result.sector_exposures[Len(ThinSectors)].Nominal_USD,
             ret.result.sector_exposures[1].Nominal_USD)
    /\ ret.result.negative_carry_count > 0
    /\ ret.result.htim_count > 0
    /\ ret.result.htim_count < Len(input_df)

(***************************************************************************)
(* C16: generate_executive_summary is pure: in every state of the          *)
(* analyzer, an unfitted one included, it leaves the fitted flag, the      *)
(* curve map and the table with its Model_Yield, Residual and Z_Score      *)
(* columns as they were, so that a later get_sell_candidates,              *)
(* get_buy_candidates or get_regression_results ends as it would have      *)
(* without it.                                                             *)
(***************************************************************************)
C16_SummaryIsPure ==
    [][ret'.op = "generate_executive_summary"
         => UNCHANGED <<_is_fitted, _regression_results,
                        _nelson_siegel_results, df>>]_vars

(***************************************************************************)
(* C17: every fitted curve of either model family has 0 <= R^2 <= 1, has   *)
(* R^2 = 0 exactly when all the yields of its fit sample are equal, and    *)
(* has a residual standard deviation >= 0.                                 *)
(***************************************************************************)
C17_SampleYields(d, sector) == Column(CleanRows(RowsOfSector(d, sector)), "Yield")

C17_RSquaredInRange ==
    \A sector \in DOMAIN CurveMap :
        LET curve == CurveMap[sector]
        IN  /\ notna(curve.r_squared)
            /\ ~RLess(curve.r_squared, RInt(0))
            /\ ~RLess(RInt(1), curve.r_squared)
            /\ FlatSample(C17_SampleYields(df, sector))
                  => curve.r_squared = RInt(0)
            /\ curve.residual_std.sgn >= 0

(***************************************************************************)
(* C18: a sector of 3 bonds, whose (Duration, Yield) points lie exactly on *)
(* a line or a quadratic, fitted with the quadratic model and min_samples  *)
(* = 3, gets a curve with residual standard deviation 0; the Model_Yield   *)
(* of each of the 3 bonds equals its Yield and its Z_Score is undefined.   *)
(***************************************************************************)
C18_ThreeBondSectors(d) ==
    {s \in SectorsOf(d) : RowCount(d, s) = 3 /\ ValidCount(d, s) = 3}

C18_PerfectFitOfThree ==
    /\ ret.op = "fit_sector_curves"
    /\ model_type = "quadratic"
    /\ ret.min_samples = 3
    => \A s \in C18_ThreeBondSectors(df) \ ret.env.raises :
          /\ s \in DOMAIN CurveMap
          /\ CurveMap[s].residual_std = SOfRat(RInt(0))
          /\ \A k \in 1..Len(df) :
                df[k].Sector_L1 = s
                   => /\ df[k].Model_Yield = df[k].Yield
                      /\ SIsNaN(df[k].Z_Score)

(***************************************************************************)
(* C19: get_curve_points(sector, n) on a sector with a fitted curve        *)
(* returns exactly n durations in ascending order, from the minimum to the *)
(* maximum Duration of the fit sample of the sector, with the n yields the *)
(* curve predicts for them; on a sector without a fitted curve, and so on  *)
(* any sector before the first fit, it raises ValueError and changes no    *)
(* state.  Every fitted curve records a sample count >= 5, the number of   *)
(* rows it was fitted on.                                                  *)
(*                                                                         *)
(* As stated the durations end at the maximum for every n; as the code has *)
(* it they do for n >= 2, and for n = 1 the one duration is the minimum.   *)
(***************************************************************************)
C19_SampleDurations(d, sector) ==
    Column(CleanRows(RowsOfSector(d, sector)), "Duration")

C19_Predicted(curve, x) ==
    IF "coefficients" \in DOMAIN curve THEN C7_Quadratic(curve, x)
    ELSE predict(curve, x)

\* the statement, the durations ending at the maximum for every n >= least
C19_Statement(least) ==
    /\ ret.op = "get_curve_points" /\ ret.sector \in DOMAIN CurveMap
          => LET x == ret.result[1]
                 y == ret.result[2]
                 n == ret.n_points
                 sample == C19_SampleDurations(df, ret.sector)
             IN  /\ ret.raised = NoError
                 /\ Len(x) = n /\ Len(y) = n
                 /\ \A i, j \in 1..n : i < j => ~RLess(x[j], x[i])
                 /\ x[1] = np_min(sample)
                 /\ n >= least => x[n] = np_max(sample)
                 /\ \A i \in 1..n : y[i] = C19_Predicted(CurveMap[ret.sector], x[i])
    /\ ret.op = "get_curve_points" /\ ret.sector \notin DOMAIN CurveMap
          => ret.raised = ValueError
    /\ \A sector \in DOMAIN CurveMap :
          /\ CurveMap[sector].sample_count >= 5
          /\ CurveMap[sector].sample_count = ValidCount(df, sector)

C19_NoStateChange ==
    ret'.op = "get_curve_points"
        => UNCHANGED <<input_df, df, model_type, _regression_results,
                       _nelson_siegel_results, _is_fitted>>

C19_CurvePoints == [](C19_Statement(2)) /\ [][C19_NoStateChange]_vars

C19_Witness ==
    /\ ret.op = "get_curve_points"
    /\ ret.raised = NoError
    /\ ret.n_points = MaxCurvePoints
    /\ RLess(ret.result[1][1], ret.result[1][2])
    /\ ret.result[2][1] # ret.result[2][MaxCurvePoints]

C19_EndsAtMaximumForEveryN == [](C19_Statement(1)) /\ [][C19_NoStateChange]_vars

(***************************************************************************)
(* C20: the richest-sectors table of the executive summary lists the       *)
(* min(3, number of sectors) sectors with the lowest mean Z_Score, in      *)
(* ascending order of the mean, a sector without a mean ranking after      *)
(* every sector with one; each is labelled Very Rich when its mean is      *)
(* < -1, Moderately Rich when it is < -1/2, Slightly Rich otherwise.  The  *)
(* allocation table lists the min(5, number of sectors) sectors with the   *)
(* largest exposure in descending order, each with exposure / total        *)
(* notional as its percentage.                                             *)
(***************************************************************************)
C20_Min(a, b) == IF a < b THEN a ELSE b

\* the mean Z_Score of a sector: the mean residual of its scored bonds over
\* the residual standard deviation of its curve
C20_MeanZ(d, sector) ==
    LET scored == SelectSeq(RowsOfSector(d, sector), LAMBDA r : ~SIsNaN(r.Z_Score))
    IN  IF scored = <<>> THEN SNaN
        ELSE RDivS(np_mean(Column(scored, "Residual")),
                   CurveMap[sector].residual_std)

\* mean a ranks before mean b
C20_Lower(a, b) == SLess(a, b) \/ (~SIsNaN(a) /\ SIsNaN(b))

C20_Label(z) ==
    CASE SLess(z, SOfRat(RInt(-1))) -> "Very Rich"
      [] ~SLess(z, SOfRat(RInt(-1))) /\ SLess(z, SOfRat(Rat(-1, 2))) -> "Moderately Rich"
      [] OTHER -> "Slightly Rich"

C20_Richest(rows, d) ==
    LET listed == {rows[j].sector : j \in 1..Len(rows)}
    IN  /\ Len(rows) = C20_Min(3, Cardinality(SectorsOf(d)))
        /\ Cardinality(listed) = Len(rows)
        /\ listed \subseteq SectorsOf(d)
        /\ \A j \in 1..Len(rows) :
              /\ rows[j].z = C20_MeanZ(d, rows[j].sector)
              /\ rows[j].interpretation = C20_Label(rows[j].z)
        /\ \A i, j \in 1..Len(rows) : i < j => ~C20_Lower(rows[j].z, rows[i].z)
        /\ \A j \in 1..Len(rows) : \A s \in SectorsOf(d) \ listed :
              ~C20_Lower(C20_MeanZ(d, s), rows[j].z)

C20_Allocated(rows, d) ==
    LET listed == {rows[j].sector : j \in 1..Len(rows)}
        exposure(s) == C15_Notional(d, {k \in 1..Len(d) : d[k].Sector_L1 = s})
        total == C15_Notional(d, 1..Len(d))
    IN  /\ Len(rows) = C20_Min(5, Cardinality(SectorsOf(d)))
        /\ Cardinality(listed) = Len(rows)
        /\ listed \subseteq SectorsOf(d)
        /\ \A j \in 1..Len(rows) :
              /\ rows[j].exposure = exposure(rows[j].sector)
              /\ rows[j].pct = RMul(RDiv(rows[j].exposure, total), RInt(100))
        /\ \A i, j \in 1..Len(rows) :
              i < j => ~RLess(rows[i].exposure, rows[j].exposure)
        /\ \A j \in 1..Len(rows) : \A s \in SectorsOf(d) \ listed :
              ~RLess(rows[j].exposure, exposure(s))

C21_Returned ==
    IF ret.op = "load" /\ ret.raised = NoError THEN ret.result ELSE <<>>

\* the raw table of the last load has a Duration header, exact or padded,
\* and a zero in its cells
C21_ZeroDurationInput ==
    /\ ret.op = "load"
    /\ \E j \in 1..Len(loader._raw_df[1].columns) :
          /\ loader._raw_df[1].columns[j][1] = "Duration"
          /\ \E k \in 1..Len(loader._raw_df[1].rows) :
                 loader._raw_df[1].rows[k][j] = <<"float", RInt(0)>>

\* C21: in a table that load returns, every bond has Net_Carry = Yield - FTP;
\* a bond with Duration = 0 has the NaN as its Carry_Efficiency, and not an
\* infinity; a bond with Duration # 0 has Carry_Efficiency = Net_Carry /
\* Duration.  A load of a table with a zero Duration raises nothing but the
\* DataValidationError of a missing required column.
C21_CarryEfficiency ==
    /\ \A k \in 1..Len(C21_Returned) :
          LET r == C21_Returned[k]
          IN  /\ r.Net_Carry = RSub(r.Yield, r.FTP)
              /\ notna(r.FTP)
              /\ r.Duration = RInt(0) => r.Carry_Efficiency = NaN
              /\ r.Duration # RInt(0) =>
                     r.Carry_Efficiency = RDiv(r.Net_Carry, r.Duration)
    /\ C21_ZeroDurationInput /\ ret.raised # NoError =>
          /\ ret.raised = DataValidationError
          /\ _validate_required_columns(
                 _rename_columns(loader._raw_df[1].columns)) # {}

\* a load returned a bond with Duration 0 whose Net_Carry is a number other
\* than 0, and a bond with another Duration
C21_Witness ==
    /\ \E k \in 1..Len(C21_Returned) :
          /\ C21_Returned[k].Duration = RInt(0)
          /\ notna(C21_Returned[k].Net_Carry)
          /\ C21_Returned[k].Net_Carry # RInt(0)
          /\ C21_Returned[k].Carry_Efficiency = NaN
    /\ \E k \in 1..Len(C21_Returned) :
          /\ C21_Returned[k].Duration # RInt(0)
          /\ notna(C21_Returned[k].Carry_Efficiency)


C22_HTM == <<"H", "T", "M">>
C22_Unknown == <<"U", "n", "k", "n", "o", "w", "n">>
\* the spellings 'htm', 'HM' and 'Hold To Maturity'
C22_Aliases ==
    {<<"h", "t", "m">>, <<"H", "M">>,
     <<"H", "o", "l", "d", " ", "T", "o", " ", "M", "a", "t", "u", "r", "i", "t", "y">>}

\* the cell of raw row k of the last load under the header `name`
C22_RawCell(k, name) ==
    loader._raw_df[1].rows[k][CHOOSE j \in 1..Len(loader._raw_df[1].columns) :
                                  loader._raw_df[1].columns[j][1] = name]

\* the tickers of the bonds of the last load that are written with an alias
C22_AliasTickers ==
    IF ret.op = "load" /\ ret.raised = NoError
       /\ \E j \in 1..Len(loader._raw_df[1].columns) :
              loader._raw_df[1].columns[j][1] = "AccSection"
    THEN {C22_RawCell(k, "TICKER")[2] : k \in
             {i \in 1..Len(loader._raw_df[1].rows) :
                 /\ C22_RawCell(i, "AccSection")[1] = "str"
                 /\ C22_RawCell(i, "AccSection")[2] \in C22_Aliases}}
    ELSE {}

\* the tables a load produced: the one the loader keeps and the one the
\* analyzer was built on
C22_LoadedTables ==
    {df} \cup (IF loader._clean_df = None THEN {} ELSE {loader._clean_df[1]})

\* C22: in every table a load produced, Is_Tradeable is false exactly for
\* the rows whose Accounting is HTM, so it is true for Unknown; a bond
\* written 'htm', 'HM' or 'Hold To Maturity' has Accounting HTM; and
\* get_sell_candidates and get_bleeding_assets with exclude_htm = True on
\* such a table return no HTM bond.
C22_TradeableIffNotHTM ==
    /\ \A t \in C22_LoadedTables : \A k \in 1..Len(t) :
          t[k].Is_Tradeable <=> t[k].Accounting # C22_HTM
    /\ \A k \in 1..Len(C21_Returned) :
          C21_Returned[k].Ticker \in C22_AliasTickers =>
              C21_Returned[k].Accounting = C22_HTM
    /\ ret.op \in {"get_sell_candidates", "get_bleeding_assets"}
       /\ ret.exclude_htm =>
          \A k \in 1..Len(ret.result) : ret.result[k].Accounting # C22_HTM

\* get_sell_candidates(exclude_htm = True) returned bonds from a loaded and
\* fitted table in which an HTM bond, written with an alias, has a negative
\* Z-Score, and in which a bond is Unknown
C22_Witness ==
    /\ ret.op = "get_sell_candidates" /\ ret.exclude_htm
    /\ ret.raised = NoError /\ ret.result # <<>>
    /\ \E k \in 1..Len(df) : /\ df[k].Accounting = C22_HTM
                             /\ ~df[k].Is_Tradeable
                             /\ SLess(df[k].Z_Score, SOfRat(RInt(0)))
    /\ \E k \in 1..Len(df) : df[k].Accounting = C22_Unknown /\ df[k].Is_Tradeable
    /\ \E j \in 1..Len(loader._raw_df[1].columns) :
          /\ loader._raw_df[1].columns[j][1] = "AccSection"
          /\ \E k \in 1..Len(loader._raw_df[1].rows) :
                 /\ loader._raw_df[1].rows[k][j][1] = "str"
                 /\ loader._raw_df[1].rows[k][j][2] \in C22_Aliases


\* C23: in every table a load produced, the Liquidity_Proxy of a bond is
\* LIQUIDITY_HIGH (5) if its Nominal_USD is strictly above
\* LIQUIDITY_THRESHOLD and LIQUIDITY_LOW (3) otherwise, a bond of exactly
\* the threshold included; no other tier occurs.
C23_LiquidityTier ==
    \A t \in C22_LoadedTables : \A k \in 1..Len(t) :
        /\ t[k].Liquidity_Proxy \in {3, 5}
        /\ t[k].Liquidity_Proxy = 5 <=>
               RLess(RInt(LIQUIDITY_THRESHOLD), t[k].Nominal_USD)
        /\ t[k].Nominal_USD = RInt(LIQUIDITY_THRESHOLD) =>
               t[k].Liquidity_Proxy = 3

\* a load returned a bond of exactly the threshold, a larger one and a
\* smaller one
C23_Witness ==
    /\ \E k \in 1..Len(C21_Returned) :
          /\ C21_Returned[k].Nominal_USD = RInt(LIQUIDITY_THRESHOLD)
          /\ C21_Returned[k].Liquidity_Proxy = LIQUIDITY_LOW
    /\ \E k \in 1..Len(C21_Returned) :
          /\ RLess(RInt(LIQUIDITY_THRESHOLD), C21_Returned[k].Nominal_USD)
          /\ C21_Returned[k].Liquidity_Proxy = LIQUIDITY_HIGH
    /\ \E k \in 1..Len(C21_Returned) :
          /\ RLess(C21_Returned[k].Nominal_USD, RInt(LIQUIDITY_THRESHOLD))
          /\ C21_Returned[k].Liquidity_Proxy = LIQUIDITY_LOW


\* the required columns that the raw table of the last load does not have
\* once its headers are renamed
C24_Absent ==
    {c \in {"Sector_L1", "Ticker", "Accounting", "Nominal_USD", "Duration",
            "Yield"} :
        <<c, FALSE>> \notin Range(_rename_columns(loader._raw_df[1].columns))}

\* C24: a load raises DataValidationError, and returns no table, exactly when
\* a required column is absent after the renaming; and a load that raises
\* leaves self._clean_df, the table of the last successful load, as it was.
C24_MissingColumnRaises ==
    /\ [](ret.op = "load" =>
            /\ C24_Absent # {} =>
                   ret.raised = DataValidationError /\ ret.result = <<>>
            /\ C24_Absent = {} => ret.raised = NoError)
    /\ [][ret'.op = "load" /\ ret'.raised = DataValidationError =>
              loader'._clean_df = loader._clean_df]_vars

\* a load has raised DataValidationError on a loader that keeps the table,
\* with rows, of an earlier load
C24_Witness ==
    /\ ret.op = "load" /\ ret.raised = DataValidationError
    /\ C24_Absent # {}
    /\ loader._clean_df # None
    /\ loader._clean_df[1] # <<>>


\* the quality report of the last load counts an unparseable Nominal or
\* Yield, or a missing FTP
C25_QualityIssue ==
    /\ ret.op = "load"
    /\ C24_Absent = {}
    /\ \/ loader._quality_report[1].nominal_parse_errors > 0
       \/ loader._quality_report[1].yield_parse_errors > 0
       \/ loader._quality_report[1].ftp_missing_count > 0

\* C25: a load of a table with a data quality issue raises an error on a
\* loader built with strict_mode = True, and returns the cleaned table on a
\* loader built with strict_mode = False.
C25_StrictModeRaises ==
    C25_QualityIssue =>
        /\ loader.strict_mode => ret.raised # NoError
        /\ ~loader.strict_mode => ret.raised = NoError


(***************************************************************************)
(* Further properties of the analyzer.                                     *)
(***************************************************************************)
\* C26: every sector listed in the richest-sectors table of the executive
\* summary has a curve in the curve map and a mean Z-Score that is defined
\* and negative; a sector without a curve, or with a mean Z-Score that is
\* undefined or not negative, is not listed.
C26_OnlyRichSectorsListed ==
    ret.op = "generate_executive_summary" =>
        \A j \in 1..Len(ret.result.richest) :
            /\ ret.result.richest[j].sector \in DOMAIN _regression_results
            /\ ~SIsNaN(ret.result.richest[j].z)
            /\ SLess(ret.result.richest[j].z, SOfRat(RInt(0)))


\* C27: once a fit_sector_curves call has completed, with or without a
\* curve, the analyzer stays fitted through every later operation;
\* get_sell_candidates, get_buy_candidates and get_regression_results then
\* do not raise; and a screener called while the curve map is empty returns
\* an empty result, whatever its thresholds.
C27_StaysFitted ==
    /\ [][_is_fitted => _is_fitted']_vars
    /\ [](_is_fitted /\ ret.op \in FitDependentOps => ret.raised = NoError)
    /\ [](/\ _is_fitted /\ DOMAIN CurveMap = {}
          /\ ret.op \in {"get_sell_candidates", "get_buy_candidates"}
          => ret.result = <<>>)

\* a fit has left the curve map empty, replacing a map with a curve or not,
\* and a screener was called after it
C27_Witness ==
    /\ _is_fitted /\ DOMAIN CurveMap = {}
    /\ ret.op \in {"get_sell_candidates", "get_buy_candidates"}
    /\ ret.raised = NoError /\ ret.result = <<>>
    /\ \E k \in 1..Len(df) : notna(df[k].Duration) /\ notna(df[k].Yield)


\* C28: in every state after a fit, a bond has a defined Model_Yield
\* exactly if its sector is a key of the curve map of the selected model
\* family and its Duration is not null; every key of the map is a sector of
\* the table; the map of the other family is empty; and
\* get_regression_results returns the map of the selected family.
C28_MapAndTableAgree ==
    _is_fitted =>
        /\ \A k \in 1..Len(df) :
              notna(df[k].Model_Yield) <=>
                  df[k].Sector_L1 \in DOMAIN CurveMap /\ notna(df[k].Duration)
        /\ DOMAIN CurveMap \subseteq SectorsOf(df)
        /\ IF model_type = "nelson_siegel"
           THEN _regression_results = EmptyDict
           ELSE _nelson_siegel_results = EmptyDict
        /\ ret.op = "get_regression_results" => ret.result = CurveMap

\* after a fit, a sector with a curve has a bond without Duration and a
\* bond with a Model_Yield, and another sector of the table has no curve
C28_Witness ==
    /\ _is_fitted
    /\ \E k \in 1..Len(df) : /\ df[k].Sector_L1 \in DOMAIN CurveMap
                             /\ isna(df[k].Duration)
                             /\ isna(df[k].Model_Yield)
    /\ \E k \in 1..Len(df) : notna(df[k].Model_Yield)
    /\ SectorsOf(df) \ DOMAIN CurveMap # {}
    /\ ret.op = "get_regression_results"


\* the table d with the Accounting of bond k switched between HTM and AFS,
\* and Is_Tradeable with it
C29_Switched(d, k) ==
    [d EXCEPT ![k] = [@ EXCEPT
        !.Accounting = IF @ = "HTM" THEN "AFS" ELSE "HTM",
        !.Is_Tradeable = (d[k].Accounting = "HTM")]]

C29_Pairs == {k \in 1..Len(df) : df[k].Accounting \in {"HTM", "AFS"}}

\* C29: get_buy_candidates reads neither Accounting nor Is_Tradeable: on the
\* table in which one bond is switched between HTM and AFS the fit gives the
\* same curves and the screen returns the same bonds in the same order, so
\* an HTM bond above the threshold with enough liquidity is returned; and
\* get_sell_candidates with exclude_htm = True, its default, returns no HTM
\* bond.
C29_BuyIgnoresTradeability ==
    /\ ret.op = "fit_sector_curves" =>
          \A k \in C29_Pairs :
              FitResults(C29_Switched(input_df, k), ret.min_samples,
                         ret.sectors, EmptyDict) = ret.result
    /\ ret.op = "get_buy_candidates" /\ ret.raised = NoError =>
          \A k \in C29_Pairs :
              LET other == BuyCandidates(C29_Switched(df, k), ret.z_threshold,
                                         ret.min_net_carry, ret.min_liquidity)
              IN  /\ Len(other) = Len(ret.result)
                  /\ \A j \in 1..Len(other) :
                         /\ other[j].Ticker = ret.result[j].Ticker
                         /\ other[j].Z_Score = ret.result[j].Z_Score
                  /\ \A j \in 1..Len(df) :
                         /\ SLess(SOfRat(ret.z_threshold), df[j].Z_Score)
                         /\ df[j].Liquidity_Proxy >= ret.min_liquidity
                         /\ ret.min_net_carry = None
                         => df[j].Ticker \in Tickers(ret.result)
    /\ ret.op = "get_sell_candidates" /\ ret.raised = NoError /\ ret.exclude_htm =>
          \A j \in 1..Len(ret.result) : ret.result[j].Accounting # "HTM"

\* get_buy_candidates returned an HTM bond
C29_Witness ==
    /\ ret.op = "get_buy_candidates" /\ ret.raised = NoError
    /\ \E j \in 1..Len(ret.result) :
          /\ ret.result[j].Accounting = "HTM"
          /\ ~ret.result[j].Is_Tradeable
          /\ \E k \in 1..Len(df) : /\ df[k].Ticker = ret.result[j].Ticker
                                   /\ k \in C29_Pairs


\* the sum of the exposures of a map of PortfolioMetrics
C30_Total(items) == RSum([j \in 1..Len(items) |-> items[j].Nominal_USD])

\* the table satisfies the input contract
C30_Contract(d) ==
    \A k \in 1..Len(d) :
        /\ notna(d[k].Nominal_USD) /\ ~RLess(d[k].Nominal_USD, RInt(0))
        /\ d[k].Is_Tradeable <=> d[k].Accounting # "HTM"

\* C30: on a table of the input contract the PortfolioMetrics balance: the
\* sector exposures and the accounting exposures each add up to the total
\* notional, HTM exposure + tradeable exposure is the total notional, HTM
\* count + tradeable count is the number of bonds, and the negative-carry
\* exposure is at most the total notional.
C30_MetricsBalance ==
    ret.op = "calculate_portfolio_metrics" /\ C30_Contract(df) =>
        /\ C30_Total(ret.result.sector_exposures) = ret.result.total_aum
        /\ C30_Total(ret.result.accounting_breakdown) = ret.result.total_aum
        /\ RAdd(ret.result.htm_exposure, ret.result.tradeable_exposure)
               = ret.result.total_aum
        /\ ret.result.htim_count + ret.result.tradeable_count = Len(df)
        /\ ~RLess(ret.result.total_aum, ret.result.negative_carry_exposure)

\* the metrics of a contract table with several sectors, HTM, AFS and
\* Unknown bonds, and negative carry on a part of the notional
C30_Witness ==
    /\ ret.op = "calculate_portfolio_metrics" /\ C30_Contract(df)
    /\ Len(ret.result.sector_exposures) > 1
    /\ ret.result.htim_count > 0
    /\ ret.result.tradeable_count > 0
    /\ \E k \in 1..Len(df) : df[k].Accounting = "Unknown"
    /\ RLess(RInt(0), ret.result.negative_carry_exposure)
    /\ RLess(ret.result.negative_carry_exposure, ret.result.total_aum)

====
